---- MODULE Spec2Model ----
(***************************************************************************)
(* Model of src/ws.rs: the Loxone Miniserver WebSocket client.            *)
(*                                                                         *)
(* Two tasks share two unbounded mpsc queues.  The background task runs   *)
(* recv_loop: it reads transport frames, decodes protocol messages        *)
(* (parse_msg_next / parse_msg_header / parse_msg_len / parse_msg_body)    *)
(* and forwards them to the reply queue (tx) or the event queue           *)
(* (tx_events).  The foreground task owns the WebSocket handle and runs   *)
(* the request operations, each built on send_recv / send_recv_enc.       *)
(***************************************************************************)
EXTENDS Integers, Sequences, FiniteSets, TLC

(***************************************************************************)
(* Bounds of the exploration.                                              *)
(***************************************************************************)
MaxMsgsReq == 3
MaxCallsReq == 2
MaxMsgsReply == 1
MaxMsgsMisc == 2
MaxCallsMisc == 1
MaxMsgsEv == 6
MaxMsgsLive == 2
MaxCallsLive == 1

(***************************************************************************)
(* Little-endian readers over a byte sequence (byteorder::ReadBytesExt on  *)
(* a Cursor).  pos is the 0-based cursor position.  A read that needs      *)
(* bytes beyond the end of the buffer fails (UnexpectedEof).               *)
(***************************************************************************)
CanRead(buf, pos, n) == pos <= Len(buf) /\ n <= Len(buf) - pos

Slice(buf, pos, n) == [i \in 1..n |-> buf[pos + i]]

read_u8(buf, pos) == buf[pos + 1]

read_u16(buf, pos) == buf[pos + 1] + 256 * buf[pos + 2]

\* A u32 of 2^31 or more is kept as U32Huge: such a value is only ever compared
\* with cursor positions and buffer lengths, all of which are far smaller.
U32Huge == 2147483647

read_u32(buf, pos) ==
    IF buf[pos + 4] >= 128 THEN U32Huge
    ELSE buf[pos + 1] + 256 * buf[pos + 2] + 65536 * buf[pos + 3] + 16777216 * buf[pos + 4]

read_i32(buf, pos) ==
    buf[pos + 1] + 256 * buf[pos + 2] + 65536 * buf[pos + 3]
        + 16777216 * (IF buf[pos + 4] >= 128 THEN buf[pos + 4] - 256 ELSE buf[pos + 4])

\* read_f64: the eight bytes are kept as the value's bit pattern.
read_f64(buf, pos) == Slice(buf, pos, 8)

(***************************************************************************)
(* format!("{:0<w>x}", n): lowercase hex, zero padded to w digits.         *)
(***************************************************************************)
HexDigit(d) ==
    CASE d = 0 -> "0" [] d = 1 -> "1" [] d = 2 -> "2" [] d = 3 -> "3"
      [] d = 4 -> "4" [] d = 5 -> "5" [] d = 6 -> "6" [] d = 7 -> "7"
      [] d = 8 -> "8" [] d = 9 -> "9" [] d = 10 -> "a" [] d = 11 -> "b"
      [] d = 12 -> "c" [] d = 13 -> "d" [] d = 14 -> "e" [] d = 15 -> "f"

RECURSIVE Pow16(_)
Pow16(k) == IF k = 0 THEN 1 ELSE 16 * Pow16(k - 1)

FormatHex(n, w) == [i \in 1..w |-> HexDigit((n \div Pow16(w - i)) % 16)]

\* a parse_uuid that renders the canonical form, with a fourth hyphen
parse_uuid_Canonical(buf, pos) ==
    LET d1hi == read_u16(buf, pos + 2)
        d1lo == read_u16(buf, pos)
        d2 == read_u16(buf, pos + 4)
        d3 == read_u16(buf, pos + 6)
        d4 == Slice(buf, pos + 8, 8)
    IN  FormatHex(d1hi, 4) \o FormatHex(d1lo, 4) \o <<"-">> \o FormatHex(d2, 4) \o <<"-">> \o FormatHex(d3, 4)
          \o <<"-">>
          \o FormatHex(d4[1], 2) \o FormatHex(d4[2], 2) \o <<"-">> \o FormatHex(d4[3], 2)
          \o FormatHex(d4[4], 2) \o FormatHex(d4[5], 2) \o FormatHex(d4[6], 2)
          \o FormatHex(d4[7], 2) \o FormatHex(d4[8], 2)

(***************************************************************************)
(* parse_uuid: u32, u16, u16 little-endian and eight raw bytes, rendered   *)
(* with three hyphens.  The caller has checked CanRead(buf, pos, 16).      *)
(* The eight digits of d1 are written as those of its two 16-bit halves.   *)
(***************************************************************************)
parse_uuid(buf, pos) ==
    LET d1hi == read_u16(buf, pos + 2)
        d1lo == read_u16(buf, pos)
        d2 == read_u16(buf, pos + 4)
        d3 == read_u16(buf, pos + 6)
        d4 == Slice(buf, pos + 8, 8)
    IN  FormatHex(d1hi, 4) \o FormatHex(d1lo, 4) \o <<"-">> \o FormatHex(d2, 4) \o <<"-">> \o FormatHex(d3, 4)
          \o <<"-">>
          \o FormatHex(d4[1], 2) \o FormatHex(d4[2], 2) \o FormatHex(d4[3], 2)
          \o FormatHex(d4[4], 2) \o FormatHex(d4[5], 2) \o FormatHex(d4[6], 2)
          \o FormatHex(d4[7], 2) \o FormatHex(d4[8], 2)

(***************************************************************************)
(* String::from_utf8 succeeds exactly on well-formed UTF-8.                *)
(***************************************************************************)
IsCont(b) == b >= 128 /\ b <= 191

RECURSIVE Utf8Valid(_, _)
Utf8Valid(bs, i) ==
    IF i > Len(bs) THEN TRUE
    ELSE LET b == bs[i]
         IN  IF b <= 127 THEN Utf8Valid(bs, i + 1)
             ELSE IF b >= 194 /\ b <= 223
                  THEN i + 1 <= Len(bs) /\ IsCont(bs[i + 1]) /\ Utf8Valid(bs, i + 2)
             ELSE IF b >= 224 /\ b <= 239
                  THEN /\ i + 2 <= Len(bs) /\ IsCont(bs[i + 1]) /\ IsCont(bs[i + 2])
                       /\ (b = 224 => bs[i + 1] >= 160)
                       /\ (b = 237 => bs[i + 1] <= 159)
                       /\ Utf8Valid(bs, i + 3)
             ELSE IF b >= 240 /\ b <= 244
                  THEN /\ i + 3 <= Len(bs)
                       /\ IsCont(bs[i + 1]) /\ IsCont(bs[i + 2]) /\ IsCont(bs[i + 3])
                       /\ (b = 240 => bs[i + 1] >= 144)
                       /\ (b = 244 => bs[i + 1] <= 143)
                       /\ Utf8Valid(bs, i + 4)
             ELSE FALSE

(***************************************************************************)
(* Event-table decoders of parse_msg_body.  Each returns                   *)
(*   [ok |-> BOOLEAN, events |-> sequence of records, pos |-> cursor]      *)
(* ok = FALSE stands for a failed unwrap() (a panic of the decoding task). *)
(***************************************************************************)
Failed(events, pos) == [ok |-> FALSE, events |-> events, pos |-> pos]

Done(events, pos) == [ok |-> TRUE, events |-> events, pos |-> pos]

RECURSIVE ParseValueEvents(_, _, _, _)
ParseValueEvents(buf, msg_len, pos, events) ==
    IF ~(pos < msg_len) THEN Done(events, pos)
    ELSE IF ~CanRead(buf, pos, 24) THEN Failed(events, pos)
    ELSE ParseValueEvents(buf, msg_len, pos + 24,
            Append(events, [uuid |-> parse_uuid(buf, pos),
                            state |-> [kind |-> "Value", val |-> read_f64(buf, pos + 16)]]))

\* a TextEventTable loop without the seek over the padding
RECURSIVE ParseTextEvents_NoPadding(_, _, _, _)
ParseTextEvents_NoPadding(buf, msg_len, pos, events) ==
    IF ~(pos < msg_len) THEN Done(events, pos)
    ELSE IF ~CanRead(buf, pos, 36) THEN Failed(events, pos)
    ELSE LET uuid == parse_uuid(buf, pos)
             uuid_icon == parse_uuid(buf, pos + 16)
             text_len == read_u32(buf, pos + 32)
         IN  IF ~CanRead(buf, pos + 36, text_len) THEN Failed(events, pos)
             ELSE IF ~Utf8Valid(Slice(buf, pos + 36, text_len), 1) THEN Failed(events, pos)
             ELSE ParseTextEvents_NoPadding(buf, msg_len, pos + 36 + text_len,
                     Append(events, [uuid |-> uuid,
                                     state |-> [kind |-> "Text",
                                                text |-> Slice(buf, pos + 36, text_len),
                                                icon |-> uuid_icon]]))

RECURSIVE ParseTextEvents(_, _, _, _)
ParseTextEvents(buf, msg_len, pos, events) ==
    IF ~(pos < msg_len) THEN Done(events, pos)
    ELSE IF ~CanRead(buf, pos, 36) THEN Failed(events, pos)
    ELSE LET uuid == parse_uuid(buf, pos)
             uuid_icon == parse_uuid(buf, pos + 16)
             text_len == read_u32(buf, pos + 32)
             r == text_len % 4
             pad == IF r = 0 THEN 0 ELSE 4 - r
         IN  IF ~CanRead(buf, pos + 36, text_len) THEN Failed(events, pos)
             ELSE IF ~Utf8Valid(Slice(buf, pos + 36, text_len), 1) THEN Failed(events, pos)
             ELSE ParseTextEvents(buf, msg_len, pos + 36 + text_len + pad,
                     Append(events, [uuid |-> uuid,
                                     state |-> [kind |-> "Text",
                                                text |-> Slice(buf, pos + 36, text_len),
                                                icon |-> uuid_icon]]))

\* for _ in 0..entries_len { five/eleven reads } of a Daytimer or Weather record
RECURSIVE ParseEntries(_, _, _, _, _)
ParseEntries(buf, pos, n, size, entries) ==
    IF n = 0 THEN Done(entries, pos)
    ELSE IF ~CanRead(buf, pos, size) THEN Failed(entries, pos)
    ELSE ParseEntries(buf, pos + size, n - 1, size, Append(entries, Slice(buf, pos, size)))

DaytimerEntrySize == 24
WeatherEntrySize == 68

\* a DaytimerEventTable loop that takes a negative entries-length for zero
RECURSIVE ParseDaytimerEvents_NegativeAsEmpty(_, _, _, _)
ParseDaytimerEvents_NegativeAsEmpty(buf, msg_len, pos, events) ==
    IF ~(pos < msg_len) THEN Done(events, pos)
    ELSE IF ~CanRead(buf, pos, 28) THEN Failed(events, pos)
    ELSE LET uuid == parse_uuid(buf, pos)
             default_val == read_f64(buf, pos + 16)
             entries_len == IF read_i32(buf, pos + 24) < 0 THEN 0 ELSE read_i32(buf, pos + 24)
             es == ParseEntries(buf, pos + 28, entries_len, DaytimerEntrySize, <<>>)
         IN  IF ~es.ok THEN Failed(events, pos)
             ELSE ParseDaytimerEvents_NegativeAsEmpty(buf, msg_len, es.pos,
                     Append(events, [uuid |-> uuid,
                                     state |-> [kind |-> "Daytimer",
                                                entries |-> es.events,
                                                default |-> default_val]]))

RECURSIVE ParseDaytimerEvents(_, _, _, _)
ParseDaytimerEvents(buf, msg_len, pos, events) ==
    IF ~(pos < msg_len) THEN Done(events, pos)
    ELSE IF ~CanRead(buf, pos, 28) THEN Failed(events, pos)
    ELSE LET uuid == parse_uuid(buf, pos)
             default_val == read_f64(buf, pos + 16)
             entries_len == read_i32(buf, pos + 24)
         IN  IF entries_len < 0 THEN Failed(events, pos)
             ELSE LET es == ParseEntries(buf, pos + 28, entries_len, DaytimerEntrySize, <<>>)
                  IN  IF ~es.ok THEN Failed(events, pos)
                      ELSE ParseDaytimerEvents(buf, msg_len, es.pos,
                              Append(events, [uuid |-> uuid,
                                              state |-> [kind |-> "Daytimer",
                                                         entries |-> es.events,
                                                         default |-> default_val]]))

RECURSIVE ParseWeatherEvents(_, _, _, _)
ParseWeatherEvents(buf, msg_len, pos, events) ==
    IF ~(pos < msg_len) THEN Done(events, pos)
    ELSE IF ~CanRead(buf, pos, 24) THEN Failed(events, pos)
    ELSE LET uuid == parse_uuid(buf, pos)
             last_update == Slice(buf, pos + 16, 4)
             entries_len == read_i32(buf, pos + 20)
         IN  IF entries_len < 0 THEN Failed(events, pos)
             ELSE LET es == ParseEntries(buf, pos + 24, entries_len, WeatherEntrySize, <<>>)
                  IN  IF ~es.ok THEN Failed(events, pos)
                      ELSE ParseWeatherEvents(buf, msg_len, es.pos,
                              Append(events, [uuid |-> uuid,
                                              state |-> [kind |-> "Weather",
                                                         entries |-> es.events,
                                                         last_update |-> last_update]]))

(***************************************************************************)
(* Transport frames (tungstenite::Message) and decoded protocol messages   *)
(* (enum Message).  A stream item may also be an Err(..) item, which the   *)
(* filter_map of recv_loop discards.                                       *)
(***************************************************************************)
BinaryFrame(data) == [kind |-> "Binary", data |-> data]
TextFrame(text) == [kind |-> "Text", text |-> text]
PingFrame == [kind |-> "Ping", data |-> <<>>]
ErrItem == [kind |-> "Err"]

MsgText(text) == [tag |-> "Text", text |-> text]
MsgBinaryText(text) == [tag |-> "BinaryText", text |-> text]
MsgBinaryFile(data) == [tag |-> "BinaryFile", data |-> data]
MsgEventTable(kind, events) == [tag |-> "EventTable", kind |-> kind, events |-> events]
MsgOutOfServiceIndicator == [tag |-> "OutOfServiceIndicator"]
MsgKeepAlive == [tag |-> "KeepAlive"]

(***************************************************************************)
(* The reply texts the modelled server can send, and what serde_json,      *)
(* base64 and hex make of them.  A JSON value is                           *)
(*   [t |-> "str", s |-> ..] | [t |-> "obj", f |-> record] | [t |-> "null"]*)
(***************************************************************************)
JStr(s) == [t |-> "str", s |-> s]
JObj(f) == [t |-> "obj", f |-> f]
JNull == [t |-> "null"]

R_Code200_YWJj == "{\"LL\":{\"Code\":\"200\",\"value\":\"YWJj\"}}"
R_Code200_abcd == "{\"LL\":{\"Code\":\"200\",\"value\":\"abcd\"}}"
R_Code200_1 == "{\"LL\":{\"Code\":\"200\",\"value\":\"1\"}}"
R_code200_obj == "{\"LL\":{\"code\":\"200\",\"value\":{\"key\":\"abcd\",\"salt\":\"s\",\"hashAlg\":\"SHA1\"}}}"
R_Code401 == "{\"LL\":{\"Code\":\"401\",\"value\":\"\"}}"
R_code401 == "{\"LL\":{\"code\":\"401\",\"value\":\"\"}}"
R_NoStatus == "{\"LL\":{\"value\":\"1\"}}"
R_NoLL == "{}"
R_NotJson == "oops"
R_Code200_NoValue == "{\"LL\":{\"Code\":\"200\"}}"
LoxAppText == "{\"lastModified\":\"t\"}"
\* a reply with a raw carriage return inside a string, and the same text without it
R_code200_cr == "{\"LL\":{\"code\":\"200\",\"value\":{\"token\":\"a\rb\"}}}"
R_code200_cr_stripped == "{\"LL\":{\"code\":\"200\",\"value\":{\"token\":\"ab\"}}}"

\* reply.replace("\r", "") of get_jwt
StripCR(text) == IF text = R_code200_cr THEN R_code200_cr_stripped ELSE text

\* serde_json::from_str::<Map<String, Value>>(text): ok = FALSE is a parse error
from_str(text) ==
    CASE text = R_Code200_YWJj ->
            [ok |-> TRUE, map |-> [LL |-> JObj([Code |-> JStr("200"), value |-> JStr("YWJj")])]]
      [] text = R_Code200_abcd ->
            [ok |-> TRUE, map |-> [LL |-> JObj([Code |-> JStr("200"), value |-> JStr("abcd")])]]
      [] text = R_Code200_1 ->
            [ok |-> TRUE, map |-> [LL |-> JObj([Code |-> JStr("200"), value |-> JStr("1")])]]
      [] text = R_code200_obj ->
            [ok |-> TRUE, map |-> [LL |-> JObj([code |-> JStr("200"),
                value |-> JObj([key |-> JStr("abcd"), salt |-> JStr("s"),
                                hashAlg |-> JStr("SHA1")])])]]
      [] text = R_Code401 ->
            [ok |-> TRUE, map |-> [LL |-> JObj([Code |-> JStr("401"), value |-> JStr("")])]]
      [] text = R_code401 ->
            [ok |-> TRUE, map |-> [LL |-> JObj([code |-> JStr("401"), value |-> JStr("")])]]
      [] text = R_NoStatus ->
            [ok |-> TRUE, map |-> [LL |-> JObj([value |-> JStr("1")])]]
      [] text = R_code200_cr_stripped ->
            [ok |-> TRUE, map |-> [LL |-> JObj([code |-> JStr("200"),
                value |-> JObj([token |-> JStr("ab")])])]]
      [] text = R_NoLL -> [ok |-> TRUE, map |-> [k \in {} |-> JNull]]
      [] text = R_Code200_NoValue ->
            [ok |-> TRUE, map |-> [LL |-> JObj([Code |-> JStr("200")])]]
      [] text = LoxAppText ->
            [ok |-> TRUE, map |-> [lastModified |-> JStr("t")]]
      [] OTHER -> [ok |-> FALSE, map |-> [k \in {} |-> JNull]]

\* Index<&str> for Map panics on a missing key; for Value it yields Null.
MapHasKey(map, key) == key \in DOMAIN map
ValueIndex(v, key) == IF v.t = "obj" /\ key \in DOMAIN v.f THEN v.f[key] ELSE JNull
as_str(v) == IF v.t = "str" THEN [some |-> TRUE, s |-> v.s] ELSE [some |-> FALSE]
as_object(v) == IF v.t = "obj" THEN [some |-> TRUE, f |-> v.f] ELSE [some |-> FALSE]

\* base64::decode and hex::decode on the value strings above
base64_decode(s) ==
    CASE s = "YWJj" -> [ok |-> TRUE, bytes |-> <<97, 98, 99>>]
      [] s = "abcd" -> [ok |-> TRUE, bytes |-> <<105, 183, 29>>]
      [] s = "" -> [ok |-> TRUE, bytes |-> <<>>]
      [] OTHER -> [ok |-> FALSE, bytes |-> <<>>]

hex_decode(s) ==
    CASE s = "abcd" -> [ok |-> TRUE, bytes |-> <<171, 205>>]
      [] s = "" -> [ok |-> TRUE, bytes |-> <<>>]
      [] OTHER -> [ok |-> FALSE, bytes |-> <<>>]

\* Message::into_data: the payload bytes of a frame of any kind
StrBytes(text) ==
    CASE text = R_NoLL -> <<123, 125>>
      [] text = R_NotJson -> <<111, 111, 112, 115>>
      [] text = LoxAppText -> <<123, 34, 108, 97>>
      [] OTHER -> <<123, 34, 76, 76>>

into_data(frame) == IF frame.kind = "Text" THEN StrBytes(frame.text) ELSE frame.data

(***************************************************************************)
(* MessageType::try_from and parse_msg_header / parse_msg_len.             *)
(***************************************************************************)
\* a try_from that takes every unknown code for a keep-alive
MessageTypeOf_UnknownAsKeepAlive(val) ==
    CASE val = 0 -> "Text"
      [] val = 1 -> "BinaryFile"
      [] val = 2 -> "ValueEventTable"
      [] val = 3 -> "TextEventTable"
      [] val = 4 -> "DaytimerEventTable"
      [] val = 5 -> "OutOfServiceIndicator"
      [] val = 7 -> "WeatherEventTable"
      [] OTHER -> "KeepAlive"

MessageTypeOf(val) ==
    CASE val = 0 -> "Text"
      [] val = 1 -> "BinaryFile"
      [] val = 2 -> "ValueEventTable"
      [] val = 3 -> "TextEventTable"
      [] val = 4 -> "DaytimerEventTable"
      [] val = 5 -> "OutOfServiceIndicator"
      [] val = 6 -> "KeepAlive"
      [] val = 7 -> "WeatherEventTable"
      [] OTHER -> "InvalidData"

\* ok = FALSE: one of the unwrap()s or header[0] panicked.
\* has_len = FALSE is the (msg_type, None) result: the length follows in a frame.
parse_msg_header(header) ==
    IF ~CanRead(header, 0, 2) THEN [ok |-> FALSE]
    ELSE LET msg_type == MessageTypeOf(read_u8(header, 1))
         IN  IF msg_type = "InvalidData" THEN [ok |-> FALSE]
             ELSE IF ~CanRead(header, 2, 2) THEN [ok |-> FALSE]
             ELSE IF read_u8(header, 2) = 0
                  THEN IF ~CanRead(header, 4, 4) THEN [ok |-> FALSE]
                       ELSE [ok |-> TRUE, msg_type |-> msg_type, has_len |-> TRUE,
                             msg_len |-> read_u32(header, 4)]
                  ELSE [ok |-> TRUE, msg_type |-> msg_type, has_len |-> FALSE, msg_len |-> 0]

\* a parse_msg_len that reads the length big-endian
parse_msg_len_BigEndian(header_msg) ==
    LET data == into_data(header_msg)
    IN  IF ~CanRead(data, 0, 4) THEN [ok |-> FALSE, msg_len |-> 0]
        ELSE [ok |-> TRUE,
              msg_len |-> data[4] + 256 * data[3] + 65536 * data[2] + 16777216 * data[1]]

parse_msg_len(header_msg) ==
    LET data == into_data(header_msg)
    IN  IF ~CanRead(data, 0, 4) THEN [ok |-> FALSE, msg_len |-> 0]
        ELSE [ok |-> TRUE, msg_len |-> read_u32(data, 0)]

HasBody(msg_type) == msg_type \notin {"OutOfServiceIndicator", "KeepAlive"}

\* a parse_msg_body whose OutOfServiceIndicator arm yields a keep-alive
parse_msg_body_empty_AlwaysKeepAlive(msg_type) == MsgKeepAlive

\* parse_msg_body for the two types that read no body frame
parse_msg_body_empty(msg_type) ==
    IF msg_type = "OutOfServiceIndicator" THEN MsgOutOfServiceIndicator ELSE MsgKeepAlive

\* a parse_msg_body whose Text arm also takes a binary body, as the BinaryFile arm does
parse_msg_body_TextTakesBinary(msg_type, msg_len, body) ==
    CASE msg_type = "Text" ->
            IF body.kind = "Text" THEN [ok |-> TRUE, msg |-> MsgText(body.text)]
            ELSE IF body.kind = "Binary" THEN [ok |-> TRUE, msg |-> MsgBinaryFile(body.data)]
            ELSE [ok |-> FALSE]
      [] msg_type = "BinaryFile" ->
            IF body.kind = "Text" THEN [ok |-> TRUE, msg |-> MsgBinaryText(body.text)]
            ELSE IF body.kind = "Binary" THEN [ok |-> TRUE, msg |-> MsgBinaryFile(body.data)]
            ELSE [ok |-> FALSE]
      [] msg_type = "ValueEventTable" ->
            IF body.kind # "Binary" THEN [ok |-> FALSE]
            ELSE LET r == ParseValueEvents(body.data, msg_len, 0, <<>>)
                 IN  IF r.ok THEN [ok |-> TRUE, msg |-> MsgEventTable("ValueEvents", r.events)]
                     ELSE [ok |-> FALSE]
      [] msg_type = "TextEventTable" ->
            IF body.kind # "Binary" THEN [ok |-> FALSE]
            ELSE LET r == ParseTextEvents(body.data, msg_len, 0, <<>>)
                 IN  IF r.ok THEN [ok |-> TRUE, msg |-> MsgEventTable("TextEvents", r.events)]
                     ELSE [ok |-> FALSE]
      [] msg_type = "DaytimerEventTable" ->
            IF body.kind # "Binary" THEN [ok |-> FALSE]
            ELSE LET r == ParseDaytimerEvents(body.data, msg_len, 0, <<>>)
                 IN  IF r.ok THEN [ok |-> TRUE, msg |-> MsgEventTable("DaytimerEvents", r.events)]
                     ELSE [ok |-> FALSE]
      [] msg_type = "WeatherEventTable" ->
            IF body.kind # "Binary" THEN [ok |-> FALSE]
            ELSE LET r == ParseWeatherEvents(body.data, msg_len, 0, <<>>)
                 IN  IF r.ok THEN [ok |-> TRUE, msg |-> MsgEventTable("WeatherEvents", r.events)]
                     ELSE [ok |-> FALSE]

\* parse_msg_body once the body frame has been read; ok = FALSE is a panic
parse_msg_body(msg_type, msg_len, body) ==
    CASE msg_type = "Text" ->
            IF body.kind = "Text" THEN [ok |-> TRUE, msg |-> MsgText(body.text)]
            ELSE [ok |-> FALSE]
      [] msg_type = "BinaryFile" ->
            IF body.kind = "Text" THEN [ok |-> TRUE, msg |-> MsgBinaryText(body.text)]
            ELSE IF body.kind = "Binary" THEN [ok |-> TRUE, msg |-> MsgBinaryFile(body.data)]
            ELSE [ok |-> FALSE]
      [] msg_type = "ValueEventTable" ->
            IF body.kind # "Binary" THEN [ok |-> FALSE]
            ELSE LET r == ParseValueEvents(body.data, msg_len, 0, <<>>)
                 IN  IF r.ok THEN [ok |-> TRUE, msg |-> MsgEventTable("ValueEvents", r.events)]
                     ELSE [ok |-> FALSE]
      [] msg_type = "TextEventTable" ->
            IF body.kind # "Binary" THEN [ok |-> FALSE]
            ELSE LET r == ParseTextEvents(body.data, msg_len, 0, <<>>)
                 IN  IF r.ok THEN [ok |-> TRUE, msg |-> MsgEventTable("TextEvents", r.events)]
                     ELSE [ok |-> FALSE]
      [] msg_type = "DaytimerEventTable" ->
            IF body.kind # "Binary" THEN [ok |-> FALSE]
            ELSE LET r == ParseDaytimerEvents(body.data, msg_len, 0, <<>>)
                 IN  IF r.ok THEN [ok |-> TRUE, msg |-> MsgEventTable("DaytimerEvents", r.events)]
                     ELSE [ok |-> FALSE]
      [] msg_type = "WeatherEventTable" ->
            IF body.kind # "Binary" THEN [ok |-> FALSE]
            ELSE LET r == ParseWeatherEvents(body.data, msg_len, 0, <<>>)
                 IN  IF r.ok THEN [ok |-> TRUE, msg |-> MsgEventTable("WeatherEvents", r.events)]
                     ELSE [ok |-> FALSE]

(***************************************************************************)
(* impl Into<HashMap<LoxoneUUID, LoxoneState>> for EventTable: the records *)
(* are collected into a hash map, so a later record replaces an earlier    *)
(* one with the same UUID, and the map iterates in an unspecified order.   *)
(***************************************************************************)
EventUuids(events) == {events[i].uuid : i \in 1..Len(events)}

LastIndexOf(events, u) ==
    CHOOSE i \in 1..Len(events) :
        /\ events[i].uuid = u
        /\ \A j \in 1..Len(events) : events[j].uuid = u => j <= i

IntoHashMap(events) ==
    [u \in EventUuids(events) |-> events[LastIndexOf(events, u)].state]

\* HashMap::extend, as used by StreamExt::concat
Extend(m1, m2) ==
    [u \in DOMAIN m1 \cup DOMAIN m2 |-> IF u \in DOMAIN m2 THEN m2[u] ELSE m1[u]]

\* the iteration orders of a hash map: every arrangement of its entries
IterOrders(m) ==
    {s \in [1..Cardinality(DOMAIN m) -> DOMAIN m] :
        \A i, j \in 1..Cardinality(DOMAIN m) : i # j => s[i] # s[j]}

Pairs(m, order) == [i \in 1..Len(order) |-> <<order[i], m[order[i]]>>]

(***************************************************************************)
(* Frames the modelled server sends.                                       *)
(***************************************************************************)
U32LE(n) == <<n % 256, (n \div 256) % 256, (n \div 65536) % 256, (n \div 16777216) % 256>>

Header(type, info, len) == BinaryFrame(<<3, type, info, 0>> \o U32LE(len))

UuidA == <<10, 11, 12, 13, 14, 15, 16, 17, 18, 19, 20, 21, 22, 23, 24, 25>>
UuidB == <<1, 0, 0, 0, 2, 0, 3, 0, 4, 5, 6, 7, 8, 9, 10, 11>>
UuidC == <<255, 255, 255, 255, 0, 0, 171, 205, 0, 255, 128, 127, 1, 16, 239, 254>>
F64_42_5 == <<0, 0, 0, 0, 0, 64, 69, 64>>
F64_1_0 == <<0, 0, 0, 0, 0, 0, 240, 63>>
F64_2_0 == <<0, 0, 0, 0, 0, 0, 0, 64>>
Zeros(n) == [i \in 1..n |-> 0]

BodyValueOne == UuidA \o F64_42_5
BodyValueDup == UuidA \o F64_1_0 \o UuidA \o F64_2_0
BodyValueHigh == UuidC \o F64_1_0 \o UuidB \o F64_2_0
BodyTextTwo ==
    UuidA \o UuidB \o U32LE(2) \o <<104, 105>> \o <<0, 0>> \o UuidB \o UuidA \o U32LE(0)
\* two text records, the first with a text of n bytes and its padding
BodyTextLen(n) ==
    UuidA \o UuidB \o U32LE(n) \o [i \in 1..n |-> 104] \o Zeros((4 - (n % 4)) % 4)
        \o UuidB \o UuidC \o U32LE(0)
BodyDaytimerOne == UuidB \o F64_1_0 \o U32LE(1) \o Zeros(DaytimerEntrySize)
BodyWeatherOne == UuidA \o U32LE(7) \o U32LE(1) \o Zeros(WeatherEntrySize)

\* entries-length fields of -1 and of i32::MIN
I32MinusOne == <<255, 255, 255, 255>>
I32Min == <<0, 0, 0, 128>>
BodyDaytimerNegFirst == UuidB \o F64_1_0 \o I32MinusOne
BodyDaytimerNegSecond == BodyDaytimerOne \o UuidA \o F64_2_0 \o I32MinusOne
BodyWeatherNegFirst == UuidA \o U32LE(7) \o I32Min
BodyWeatherNegSecond == BodyWeatherOne \o UuidB \o U32LE(7) \o I32MinusOne

TextReply(text) == <<Header(0, 0, 0), TextFrame(text)>>
EventMsg(type, body) == <<Header(type, 0, Len(body)), BinaryFrame(body)>>

ReplyTemplates ==
    {"R_Code200_YWJj", "R_Code200_abcd", "R_Code200_1", "R_code200_obj", "R_Code401",
     "R_code401", "R_NoStatus", "R_NoLL", "R_NotJson", "R_Code200_NoValue", "R_code200_cr"}

EventTemplates == {"ValueOne", "ValueDup", "TextTwo", "DaytimerOne", "WeatherOne"}

ControlTemplates ==
    {"KeepAlive", "OutOfService", "LoxAppFile", "BinFile", "KeepAliveLen", "ErrItem"}

\* frames that are not well-formed messages, or whose lengths disagree
MalformedTemplates ==
    {"BadType", "BadMagic", "ShortHeader", "TextHeader", "TextBodyBinary", "ValueBodyText",
     "TextTblBodyText", "DaytimerBodyText", "WeatherBodyText", "FileBodyPing",
     "ValueShortLen", "ValueLongLen", "ValueTrailing", "TextPadOver"}

\* messages whose length comes in a length frame, or whose length field is unused
LengthTemplates ==
    {"ValueLenFrame", "ValueLenFrameZero", "OutOfServiceLen", "KeepAliveLenField",
     "KeepAliveLenText"}

\* a value table whose first UUID has bytes of every size
UuidTemplates == {"ValueHighUuid"}

\* text tables whose first text has 0 to 5 bytes
TextLenOf(t) ==
    CASE t = "TextLen0" -> 0 [] t = "TextLen1" -> 1 [] t = "TextLen2" -> 2
      [] t = "TextLen3" -> 3 [] t = "TextLen4" -> 4 [] t = "TextLen5" -> 5
\* daytimer and weather tables with a negative entries-length
NegativeTemplates ==
    {"DaytimerNegFirst", "DaytimerNegSecond", "WeatherNegFirst", "WeatherNegSecond"}
PaddingTemplates == {"TextLen0", "TextLen1", "TextLen2", "TextLen3", "TextLen4", "TextLen5"}

Frames(t) ==
    CASE t = "R_Code200_YWJj" -> TextReply(R_Code200_YWJj)
      [] t = "R_Code200_abcd" -> TextReply(R_Code200_abcd)
      [] t = "R_Code200_1" -> TextReply(R_Code200_1)
      [] t = "R_code200_obj" -> TextReply(R_code200_obj)
      [] t = "R_Code401" -> TextReply(R_Code401)
      [] t = "R_code401" -> TextReply(R_code401)
      [] t = "R_NoStatus" -> TextReply(R_NoStatus)
      [] t = "R_NoLL" -> TextReply(R_NoLL)
      [] t = "R_NotJson" -> TextReply(R_NotJson)
      [] t = "R_Code200_NoValue" -> TextReply(R_Code200_NoValue)
      [] t = "R_code200_cr" -> TextReply(R_code200_cr)
      [] t = "ValueOne" -> EventMsg(2, BodyValueOne)
      [] t = "ValueDup" -> EventMsg(2, BodyValueDup)
      [] t = "TextTwo" -> EventMsg(3, BodyTextTwo)
      [] t = "DaytimerOne" -> EventMsg(4, BodyDaytimerOne)
      [] t = "WeatherOne" -> EventMsg(7, BodyWeatherOne)
      [] t = "KeepAlive" -> <<Header(6, 0, 0)>>
      [] t = "OutOfService" -> <<Header(5, 0, 0)>>
      [] t = "LoxAppFile" -> <<Header(1, 0, 0), TextFrame(LoxAppText)>>
      [] t = "BinFile" -> <<Header(1, 0, 3), BinaryFrame(<<1, 2, 3>>)>>
      [] t = "KeepAliveLen" -> <<Header(6, 1, 0), BinaryFrame(U32LE(0))>>
      [] t = "ErrItem" -> <<ErrItem>>
      [] t = "BadType" -> <<Header(8, 0, 0)>>
      [] t = "BadMagic" -> <<BinaryFrame(<<9, 6, 0, 0>> \o U32LE(0))>>
      [] t = "ShortHeader" -> <<BinaryFrame(<<3, 6, 0, 0>>)>>
      [] t = "TextHeader" -> <<TextFrame(R_NoLL)>>
      [] t = "TextBodyBinary" -> <<Header(0, 0, 3), BinaryFrame(<<1, 2, 3>>)>>
      [] t = "ValueBodyText" -> <<Header(2, 0, 0), TextFrame(R_NoLL)>>
      [] t = "TextTblBodyText" -> <<Header(3, 0, 0), TextFrame(R_NoLL)>>
      [] t = "DaytimerBodyText" -> <<Header(4, 0, 0), TextFrame(R_NoLL)>>
      [] t = "WeatherBodyText" -> <<Header(7, 0, 0), TextFrame(R_NoLL)>>
      [] t = "FileBodyPing" -> <<Header(1, 0, 0), PingFrame>>
      [] t = "ValueShortLen" -> <<Header(2, 0, 10), BinaryFrame(BodyValueOne)>>
      [] t = "ValueLongLen" -> <<Header(2, 0, 48), BinaryFrame(BodyValueOne)>>
      [] t = "ValueTrailing" -> <<Header(2, 0, 24), BinaryFrame(BodyValueDup)>>
      [] t = "TextPadOver" ->
            <<Header(3, 0, 38), BinaryFrame(UuidA \o UuidB \o U32LE(2) \o <<104, 105>>)>>
      [] t = "ValueLenFrame" ->
            <<Header(2, 1, 0), BinaryFrame(U32LE(24)), BinaryFrame(BodyValueOne)>>
      [] t = "ValueLenFrameZero" ->
            <<Header(2, 1, 24), BinaryFrame(U32LE(0)), BinaryFrame(BodyValueOne)>>
      [] t = "OutOfServiceLen" -> <<Header(5, 1, 0), BinaryFrame(U32LE(0))>>
      [] t = "KeepAliveLenField" -> <<Header(6, 0, 5)>>
      [] t = "KeepAliveLenText" -> <<Header(6, 1, 0), TextFrame(LoxAppText)>>
      [] t = "ValueHighUuid" -> EventMsg(2, BodyValueHigh)
      [] t = "DaytimerNegFirst" -> EventMsg(4, BodyDaytimerNegFirst)
      [] t = "DaytimerNegSecond" -> EventMsg(4, BodyDaytimerNegSecond)
      [] t = "WeatherNegFirst" -> EventMsg(7, BodyWeatherNegFirst)
      [] t = "WeatherNegSecond" -> EventMsg(7, BodyWeatherNegSecond)
      [] t \in PaddingTemplates -> EventMsg(3, BodyTextLen(TextLenOf(t)))

(***************************************************************************)
(* Inputs of the exploration: which messages the server may send, in any   *)
(* order and each at most once, and which operations the caller invokes.   *)
(***************************************************************************)
AllOps ==
    {"key_exchange", "authenticate", "get_jwt", "get_loxapp3", "get_loxapp3_timestamp",
     "enable_status_update", "send_io_cmd"}

\* the flows that need a session: two calls against accepting and refusing replies
ReqMenu ==
    [name |-> "req",
     templates |-> {"R_Code200_YWJj", "R_Code200_abcd", "R_code200_obj", "R_Code401",
                    "R_code401"},
     max |-> MaxMsgsReq, ops |-> {"key_exchange", "authenticate", "get_jwt", "send_io_cmd"},
     calls |-> MaxCallsReq, drops |-> FALSE]

\* one call of any operation against every text reply
ReplyMenu ==
    [name |-> "reply",
     templates |-> ReplyTemplates,
     max |-> MaxMsgsReply, ops |-> AllOps, calls |-> MaxCallsMisc, drops |-> FALSE]

\* one call against the other kinds of message, with the caller free to drop
\* its handles
MiscMenu ==
    [name |-> "misc",
     templates |-> ControlTemplates \cup {"ValueOne", "R_Code200_1", "R_Code401"},
     max |-> MaxMsgsMisc, ops |-> {"get_loxapp3", "send_io_cmd", "enable_status_update"},
     calls |-> MaxCallsMisc, drops |-> TRUE]

\* the subscription: event tables around enable_status_update
EvMenu ==
    [name |-> "ev",
     templates |-> {"R_Code200_1", "KeepAlive"} \cup EventTemplates,
     max |-> MaxMsgsEv, ops |-> {"enable_status_update"}, calls |-> MaxCallsMisc,
     drops |-> FALSE]

Menus == {ReqMenu, ReplyMenu, MiscMenu, EvMenu}

\* a small run for the properties checked under fairness
LiveMenu ==
    [name |-> "live",
     templates |-> {"R_Code200_abcd", "R_Code401", "KeepAlive", "LoxAppFile"},
     max |-> MaxMsgsLive,
     ops |-> {"authenticate", "get_loxapp3", "get_loxapp3_timestamp"},
     calls |-> MaxCallsLive, drops |-> FALSE]

Certs == {"good_pem", "bad_pem"}
Tokens == {"good", "nodot", "nouser"}

\* parse_cert(cert): does the PEM text hold an RSA public key
parse_cert_ok(cert) == cert = "good_pem"

\* what authenticate finds in the token: the second '.'-separated segment,
\* base64-decoded and parsed as a JSON map
TokenPayload(token) ==
    CASE token = "good" -> [segment |-> TRUE, map |-> [user |-> JStr("admin")]]
      [] token = "nouser" -> [segment |-> TRUE, map |-> [exp |-> JStr("1")]]
      [] OTHER -> [segment |-> FALSE]

(***************************************************************************)
(* Commands written to the sink.  encrypt_cmd_ws wraps a command under a   *)
(* session's key material.                                                 *)
(***************************************************************************)
Cmd(path) == [path |-> path]
encrypt_cmd_ws(cmd, sid) == [path |-> "jdev/sys/enc", plain |-> cmd, sid |-> sid]

CmdEnable == Cmd("jdev/sps/enablebinstatusupdate")

(***************************************************************************)
(* Results of the operations.                                              *)
(***************************************************************************)
Ok(op, val) == [op |-> op, tag |-> "Ok", val |-> val]
Err(op, err) == [op |-> op, tag |-> "Err", err |-> err]
Panic(op) == [op |-> op, tag |-> "Panic"]

ErrTransport(kind) == [kind |-> "Transport", io |-> kind]
ErrInvalidMessageType == [kind |-> "InvalidMessageType"]
ErrJsonDeserialize == [kind |-> "JsonDeserialize"]
ErrJsonMissingField(f) == [kind |-> "JsonMissingField", field |-> f]
ErrInvalidStatusCode(s) == [kind |-> "InvalidStatusCode", status |-> s]
ErrKeyDecode == [kind |-> "KeyDecode"]
ErrSessionKey == [kind |-> "SessionKey"]
ErrJwtBadFormat == [kind |-> "JwtBadFormat"]
ErrKeyRequest(inner) == [kind |-> "KeyRequest", inner |-> inner]

VARIABLES
    menu,           \* the inputs chosen for this run
    stream,         \* transport frames received and not yet read by recv_loop
    closed,         \* the transport stream has ended
    sentTpl,        \* server messages sent so far
    loop,           \* recv_loop: [pc, msg_type, msg_len]
    msg,            \* the message recv_loop decoded last
    nDecoded,       \* number of messages recv_loop has decoded
    nTables,        \* number of event tables recv_loop has decoded
    replyQ,         \* the tx -> WebSocket.rx channel
    evQ,            \* the tx_events -> EventReceiver.rx channel
    handle,         \* the WebSocket value: "alive" or "dropped"
    rxEv,           \* the EventReceiver: "held", "moved", "stream", "ended", "dropped"
    session,        \* WebSocket.session: 0 is None, otherwise the session's key material
    nSessions,      \* number of Session::new calls that drew key material
    sink,           \* commands written to the transport sink
    fg,             \* the foreground task: [pc, ...]
    reply,          \* what the last recv() returned
    result,         \* what the last finished operation returned
    nCalls,         \* number of operations started
    authenticated,  \* an authenticate or get_jwt call has returned Ok on this connection
    initial_state,  \* the snapshot enable_status_update is building / has returned
    snapTables,     \* the event-queue entries folded into the snapshot
    streamOut       \* the entry the subscription stream flattened last, and its pairs

vars ==
    <<menu, stream, closed, sentTpl, loop, msg, nDecoded, nTables, replyQ, evQ, handle, rxEv,
      session, nSessions, sink, fg, reply, result, nCalls, authenticated, initial_state,
      snapTables, streamOut>>

serverVars == <<stream, closed, sentTpl>>
loopVars == <<loop, msg, nDecoded, nTables>>
fgVars == <<session, nSessions, sink, fg, reply, result, nCalls, authenticated>>
subVars == <<initial_state, snapTables, streamOut>>

Idle == [pc |-> "idle"]
NoMap == [u \in {} |-> 0]

Init ==
    /\ menu \in Menus
    /\ stream = <<>>
    /\ closed = FALSE
    /\ sentTpl = {}
    /\ loop = [pc |-> "header"]
    /\ msg = [tag |-> "None"]
    /\ nDecoded = 0
    /\ nTables = 0
    /\ replyQ = <<>>
    /\ evQ = <<>>
    /\ handle = "alive"
    /\ rxEv = "held"
    /\ session = 0
    /\ nSessions = 0
    /\ sink = <<>>
    /\ fg = Idle
    /\ reply = [some |-> FALSE]
    /\ result = [op |-> "none", tag |-> "None"]
    /\ nCalls = 0
    /\ authenticated = FALSE
    /\ initial_state = NoMap
    /\ snapTables = <<>>
    /\ streamOut = [seq |-> 0]

(***************************************************************************)
(* The server and the transport.                                           *)
(***************************************************************************)
ServerSend(t) ==
    /\ ~closed
    /\ stream = <<>>
    /\ t \in menu.templates \ sentTpl
    /\ Cardinality(sentTpl) < menu.max
    /\ stream' = Frames(t)
    /\ sentTpl' = sentTpl \cup {t}
    /\ UNCHANGED <<menu, closed, loopVars, replyQ, evQ, handle, rxEv, fgVars, subVars>>

TransportClose ==
    /\ ~closed
    /\ closed' = TRUE
    /\ UNCHANGED <<menu, stream, sentTpl, loopVars, replyQ, evQ, handle, rxEv, fgVars, subVars>>

(***************************************************************************)
(* recv_loop.  A panic (a failed unwrap, an explicit panic!) unwinds the   *)
(* task and drops tx, tx_events and the stream: loop.pc = "dead".          *)
(***************************************************************************)
Dead == [pc |-> "dead"]
LoopRunning == loop.pc # "dead"
EnableSent == \E i \in 1..Len(sink) : sink[i] = CmdEnable

\* recv_loop with the KeepAlive arm missing: a KeepAlive falls through to the
\* arm that forwards replies
Dispatch_KeepAliveForwarded(m) ==
    IF m.tag = "OutOfServiceIndicator"
    THEN /\ loop' = [pc |-> "header"]
         /\ nTables' = nTables
         /\ UNCHANGED <<replyQ, evQ>>
    ELSE IF m.tag = "EventTable"
    THEN IF rxEv \in {"dropped", "ended"}
         THEN /\ loop' = Dead
              /\ nTables' = nTables
              /\ UNCHANGED <<replyQ, evQ>>
         ELSE /\ loop' = [pc |-> "header"]
              /\ nTables' = nTables + 1
              /\ evQ' = Append(evQ, [table |-> m, seq |-> nTables + 1, afterCmd |-> EnableSent])
              /\ UNCHANGED replyQ
    ELSE IF handle = "dropped"
         THEN /\ loop' = Dead
              /\ nTables' = nTables
              /\ UNCHANGED <<replyQ, evQ>>
         ELSE /\ loop' = [pc |-> "header"]
              /\ nTables' = nTables
              /\ replyQ' = Append(replyQ, m)
              /\ UNCHANGED evQ

\* recv_loop with tx_events.send(msg) not unwrapped: an event table nobody
\* can receive is discarded
Dispatch_IgnoresClosedEvents(m) ==
    IF m.tag \in {"KeepAlive", "OutOfServiceIndicator"}
    THEN /\ loop' = [pc |-> "header"]
         /\ nTables' = nTables
         /\ UNCHANGED <<replyQ, evQ>>
    ELSE IF m.tag = "EventTable"
    THEN IF rxEv \in {"dropped", "ended"}
         THEN /\ loop' = [pc |-> "header"]
              /\ nTables' = nTables
              /\ UNCHANGED <<replyQ, evQ>>
         ELSE /\ loop' = [pc |-> "header"]
              /\ nTables' = nTables + 1
              /\ evQ' = Append(evQ, [table |-> m, seq |-> nTables + 1, afterCmd |-> EnableSent])
              /\ UNCHANGED replyQ
    ELSE IF handle = "dropped"
         THEN /\ loop' = Dead
              /\ nTables' = nTables
              /\ UNCHANGED <<replyQ, evQ>>
         ELSE /\ loop' = [pc |-> "header"]
              /\ nTables' = nTables
              /\ replyQ' = Append(replyQ, m)
              /\ UNCHANGED evQ

\* the match of recv_loop on a decoded message m
Dispatch(m) ==
    IF m.tag \in {"KeepAlive", "OutOfServiceIndicator"}
    THEN /\ loop' = [pc |-> "header"]
         /\ nTables' = nTables
         /\ UNCHANGED <<replyQ, evQ>>
    ELSE IF m.tag = "EventTable"
    THEN IF rxEv \in {"dropped", "ended"}
         THEN /\ loop' = Dead
              /\ nTables' = nTables
              /\ UNCHANGED <<replyQ, evQ>>
         ELSE /\ loop' = [pc |-> "header"]
              /\ nTables' = nTables + 1
              /\ evQ' = Append(evQ, [table |-> m, seq |-> nTables + 1, afterCmd |-> EnableSent])
              /\ UNCHANGED replyQ
    ELSE IF handle = "dropped"
         THEN /\ loop' = Dead
              /\ nTables' = nTables
              /\ UNCHANGED <<replyQ, evQ>>
         ELSE /\ loop' = [pc |-> "header"]
              /\ nTables' = nTables
              /\ replyQ' = Append(replyQ, m)
              /\ UNCHANGED evQ

Decoded(m) ==
    /\ msg' = m
    /\ nDecoded' = nDecoded + 1
    /\ Dispatch(m)

LoopPanic ==
    /\ loop' = Dead
    /\ UNCHANGED <<msg, nDecoded, nTables, replyQ, evQ>>

AfterLen(msg_type, msg_len) ==
    IF HasBody(msg_type)
    THEN /\ loop' = [pc |-> "body", msg_type |-> msg_type, msg_len |-> msg_len]
         /\ UNCHANGED <<msg, nDecoded, nTables, replyQ, evQ>>
    ELSE Decoded(parse_msg_body_empty(msg_type))

\* stream.filter_map(|item| ready(item.ok())): an Err item is skipped
SkipErrItem ==
    /\ LoopRunning
    /\ stream # <<>>
    /\ Head(stream).kind = "Err"
    /\ stream' = Tail(stream)
    /\ UNCHANGED <<menu, closed, sentTpl, loopVars, replyQ, evQ, handle, rxEv, fgVars, subVars>>

\* parse_msg_next: the header frame
RecvHeader ==
    /\ loop.pc = "header"
    /\ stream # <<>>
    /\ Head(stream).kind # "Err"
    /\ stream' = Tail(stream)
    /\ LET frame == Head(stream)
       IN  IF frame.kind # "Binary" THEN LoopPanic
           ELSE LET h == parse_msg_header(frame.data)
                IN  IF ~h.ok THEN LoopPanic
                    ELSE IF h.has_len THEN AfterLen(h.msg_type, h.msg_len)
                    ELSE /\ loop' = [pc |-> "len", msg_type |-> h.msg_type]
                         /\ UNCHANGED <<msg, nDecoded, nTables, replyQ, evQ>>
    /\ UNCHANGED <<menu, closed, sentTpl, handle, rxEv, fgVars, subVars>>

\* parse_msg_next: the length frame after a header whose info byte is not 0
RecvLen ==
    /\ loop.pc = "len"
    /\ stream # <<>>
    /\ Head(stream).kind # "Err"
    /\ stream' = Tail(stream)
    /\ LET l == parse_msg_len(Head(stream))
       IN  IF ~l.ok THEN LoopPanic ELSE AfterLen(loop.msg_type, l.msg_len)
    /\ UNCHANGED <<menu, closed, sentTpl, handle, rxEv, fgVars, subVars>>

\* parse_msg_body: the body frame
RecvBody ==
    /\ loop.pc = "body"
    /\ stream # <<>>
    /\ Head(stream).kind # "Err"
    /\ stream' = Tail(stream)
    /\ LET b == parse_msg_body(loop.msg_type, loop.msg_len, Head(stream))
       IN  IF ~b.ok THEN LoopPanic ELSE Decoded(b.msg)
    /\ UNCHANGED <<menu, closed, sentTpl, handle, rxEv, fgVars, subVars>>

\* stream.next().await.unwrap() on the end of the stream
RecvEof ==
    /\ LoopRunning
    /\ stream = <<>>
    /\ closed
    /\ LoopPanic
    /\ UNCHANGED <<menu, serverVars, handle, rxEv, fgVars, subVars>>

(***************************************************************************)
(* The foreground task: the request operations of impl WebSocket.          *)
(***************************************************************************)
\* a recv() that is not woken when the sender is dropped
RecvReady_OnlyOnReply == replyQ # <<>>

\* self.rx.recv().await: the next queued reply, or None once the queue is
\* empty and tx has been dropped
RecvReady == replyQ # <<>> \/ ~LoopRunning

\* a recv() that leaves the message it returns in the queue
Rest_KeepsHead == replyQ
Got == IF replyQ # <<>> THEN [some |-> TRUE, msg |-> Head(replyQ)] ELSE [some |-> FALSE]
Rest == IF replyQ # <<>> THEN Tail(replyQ) ELSE replyQ

\* sink.send(..).await: on a closed transport the write may fail
SendOutcomes == IF closed THEN {TRUE, FALSE} ELSE {TRUE}

\* The common shape of the reply handling:  match self.send_recv(..).await? {
\*   Message::Text(reply) => { from_str(&reply)?; match reply_json["LL"][field].as_str() {..} }
\*   _reply => Err(InvalidMessageType) }
\* The result is the status string (tag "Status") or the way the handling ended early.
ReplyStatus(got, text_of, field) ==
    IF ~got.some THEN [tag |-> "Err", err |-> ErrTransport("BrokenPipe")]
    ELSE IF got.msg.tag # "Text" THEN [tag |-> "Err", err |-> ErrInvalidMessageType]
    ELSE LET j == from_str(text_of)
         IN  IF ~j.ok THEN [tag |-> "Err", err |-> ErrJsonDeserialize]
             ELSE IF ~MapHasKey(j.map, "LL") THEN [tag |-> "Panic"]
             ELSE LET code == as_str(ValueIndex(j.map.LL, field))
                  IN  IF ~code.some
                      THEN [tag |-> "Err", err |-> ErrJsonMissingField(field)]
                      ELSE [tag |-> "Status", status |-> code.s,
                            value |-> ValueIndex(j.map.LL, "value")]

TextOf(got) == IF got.some /\ got.msg.tag \in {"Text", "BinaryText"} THEN got.msg.text ELSE ""

ValueStr(op, st) ==
    LET v == as_str(st.value)
    IN  IF v.some THEN Ok(op, v.s) ELSE Err(op, ErrJsonMissingField("LL.value"))

ValueObj(op, st) ==
    LET v == as_object(st.value)
    IN  IF v.some THEN Ok(op, v.f) ELSE Err(op, ErrJsonMissingField("LL.value"))

\* key_exchange without the arm for the other status codes
key_exchange_reply_AnyStatus(got) ==
    LET st == ReplyStatus(got, TextOf(got), "Code")
    IN  IF st.tag = "Panic" THEN Panic("key_exchange")
        ELSE IF st.tag = "Err" THEN Err("key_exchange", st.err)
        ELSE LET v == as_str(st.value)
             IN  IF ~v.some THEN Err("key_exchange", ErrJsonMissingField("LL.value"))
                 ELSE LET k == base64_decode(v.s)
                      IN  IF ~k.ok THEN Err("key_exchange", ErrKeyDecode)
                          ELSE Ok("key_exchange", k.bytes)

\* key_exchange, from the reply on
key_exchange_reply(got) ==
    LET st == ReplyStatus(got, TextOf(got), "Code")
    IN  IF st.tag = "Panic" THEN Panic("key_exchange")
        ELSE IF st.tag = "Err" THEN Err("key_exchange", st.err)
        ELSE IF st.status # "200" THEN Err("key_exchange", ErrInvalidStatusCode(st.status))
        ELSE LET v == as_str(st.value)
             IN  IF ~v.some THEN Err("key_exchange", ErrJsonMissingField("LL.value"))
                 ELSE LET k == base64_decode(v.s)
                      IN  IF ~k.ok THEN Err("key_exchange", ErrKeyDecode)
                          ELSE Ok("key_exchange", k.bytes)

get_key_reply(got) ==
    LET st == ReplyStatus(got, TextOf(got), "Code")
    IN  IF st.tag = "Panic" THEN Panic("get_key")
        ELSE IF st.tag = "Err" THEN Err("get_key", st.err)
        ELSE IF st.status # "200" THEN Err("get_key", ErrInvalidStatusCode(st.status))
        ELSE ValueStr("get_key", st)

get_key_salt_reply(got) ==
    LET st == ReplyStatus(got, TextOf(got), "code")
    IN  IF st.tag = "Panic" THEN Panic("get_key_salt")
        ELSE IF st.tag = "Err" THEN Err("get_key_salt", st.err)
        ELSE IF st.status # "200" THEN Err("get_key_salt", ErrInvalidStatusCode(st.status))
        ELSE ValueObj("get_key_salt", st)

authenticate_reply(got) ==
    LET st == ReplyStatus(got, TextOf(got), "code")
    IN  IF st.tag = "Panic" THEN Panic("authenticate")
        ELSE IF st.tag = "Err" THEN Err("authenticate", st.err)
        ELSE IF st.status # "200" THEN Err("authenticate", ErrInvalidStatusCode(st.status))
        ELSE ValueObj("authenticate", st)

get_jwt_reply(got) ==
    LET st == ReplyStatus(got, StripCR(TextOf(got)), "code")
    IN  IF st.tag = "Panic" THEN Panic("get_jwt")
        ELSE IF st.tag = "Err" THEN Err("get_jwt", st.err)
        ELSE IF st.status # "200" THEN Err("get_jwt", ErrInvalidStatusCode(st.status))
        ELSE ValueObj("get_jwt", st)

get_loxapp3_reply(got) ==
    IF ~got.some THEN Err("get_loxapp3", ErrTransport("BrokenPipe"))
    ELSE IF got.msg.tag # "BinaryText" THEN Err("get_loxapp3", ErrInvalidMessageType)
    ELSE IF ~from_str(got.msg.text).ok THEN Err("get_loxapp3", ErrJsonDeserialize)
    ELSE Ok("get_loxapp3", from_str(got.msg.text).map)

\* get_loxapp3_timestamp: assert_eq!(reply_json["LL"]["Code"].as_str(), Some("200"))
\* comes before the match on the status
get_loxapp3_timestamp_reply(got) ==
    LET st == ReplyStatus(got, TextOf(got), "Code")
    IN  IF st.tag = "Panic" THEN Panic("get_loxapp3_timestamp")
        ELSE IF st.tag = "Err" /\ st.err.kind = "JsonMissingField"
             THEN Panic("get_loxapp3_timestamp")
        ELSE IF st.tag = "Err" THEN Err("get_loxapp3_timestamp", st.err)
        ELSE IF st.status # "200" THEN Panic("get_loxapp3_timestamp")
        ELSE ValueStr("get_loxapp3_timestamp", st)

\* the part shared by enable_status_update and send_io_cmd:
\* assert_eq!(reply_json["LL"]["value"].as_str().ok_or(JsonMissingField("LL.value"))?, "1")
ValueIsOne(op, st) ==
    LET v == as_str(st.value)
    IN  IF ~v.some THEN Err(op, ErrJsonMissingField("LL.value"))
        ELSE IF v.s # "1" THEN Panic(op)
        ELSE Ok(op, "1")

enable_status_update_reply(got) ==
    LET st == ReplyStatus(got, TextOf(got), "Code")
    IN  IF st.tag = "Panic" THEN Panic("enable_status_update")
        ELSE IF st.tag = "Err" THEN Err("enable_status_update", st.err)
        ELSE IF st.status # "200"
             THEN Err("enable_status_update", ErrInvalidStatusCode(st.status))
        ELSE ValueIsOne("enable_status_update", st)

send_io_cmd_reply(got) ==
    LET st == ReplyStatus(got, TextOf(got), "Code")
    IN  IF st.tag = "Panic" THEN Panic("send_io_cmd")
        ELSE IF st.tag = "Err" THEN Err("send_io_cmd", st.err)
        ELSE IF st.status # "200" THEN Err("send_io_cmd", ErrInvalidStatusCode(st.status))
        ELSE ValueIsOne("send_io_cmd", st)

(***************************************************************************)
(* Between the two requests of authenticate and of get_jwt.  The result is *)
(* the command to send encrypted (tag "Send") or the way the call ends.    *)
(***************************************************************************)
hash_token(token, key, alg) == [hmac |-> alg, key |-> key, data |-> token]
hash_pwd(user, pwd, key, salt, alg) == [hmac |-> alg, key |-> key, user |-> user, salt |-> salt]

\* send_recv_enc without the check for a session
send_recv_enc_Unchecked(op, cmd) == [tag |-> "Send", cmd |-> encrypt_cmd_ws(cmd, session)]

\* send_recv_enc: self.session.as_ref().ok_or(PermissionDenied)?
send_recv_enc(op, cmd) ==
    IF session = 0 THEN Err(op, ErrTransport("PermissionDenied"))
    ELSE [tag |-> "Send", cmd |-> encrypt_cmd_ws(cmd, session)]

authenticate_after_key(r, token) ==
    IF r.tag = "Panic" THEN Panic("authenticate")
    ELSE IF r.tag = "Err" THEN Err("authenticate", ErrKeyRequest(r.err))
    ELSE LET key == hex_decode(r.val)
             payload == TokenPayload(token)
         IN  IF ~key.ok THEN Err("authenticate", ErrKeyDecode)
             ELSE IF ~payload.segment THEN Err("authenticate", ErrJwtBadFormat)
             ELSE IF ~MapHasKey(payload.map, "user") THEN Panic("authenticate")
             ELSE LET user == as_str(payload.map.user)
                  IN  IF ~user.some
                      THEN Err("authenticate", ErrKeyRequest(ErrJsonMissingField("LL.value.user")))
                      ELSE send_recv_enc("authenticate",
                              [path |-> "authwithtoken",
                               hash |-> hash_token(token, key.bytes, "SHA1"), user |-> user.s])

get_jwt_after_key(r) ==
    IF r.tag = "Panic" THEN Panic("get_jwt")
    ELSE IF r.tag = "Err" THEN Err("get_jwt", ErrKeyRequest(r.err))
    ELSE LET auth == r.val
         IN  IF ~MapHasKey(auth, "key") THEN Panic("get_jwt")
             ELSE IF ~as_str(auth.key).some
                  THEN Err("get_jwt", ErrKeyRequest(ErrJsonMissingField("LL.value.key")))
             ELSE IF ~hex_decode(as_str(auth.key).s).ok THEN Err("get_jwt", ErrKeyDecode)
             ELSE IF ~MapHasKey(auth, "salt") THEN Panic("get_jwt")
             ELSE IF ~as_str(auth.salt).some
                  THEN Err("get_jwt", ErrKeyRequest(ErrJsonMissingField("LL.value.salt")))
             ELSE IF ~MapHasKey(auth, "hashAlg") THEN Panic("get_jwt")
             ELSE IF ~as_str(auth.hashAlg).some
                  THEN Err("get_jwt", ErrKeyRequest(ErrJsonMissingField("LL.value.hashAlg")))
             ELSE IF as_str(auth.hashAlg).s \notin {"SHA1", "SHA256"} THEN Panic("get_jwt")
             ELSE send_recv_enc("get_jwt",
                     [path |-> "jdev/sys/getjwt",
                      hash |-> hash_pwd("user", "pwd", hex_decode(as_str(auth.key).s).bytes,
                                        as_str(auth.salt).s, as_str(auth.hashAlg).s)])

(***************************************************************************)
(* Steps of the foreground task.                                           *)
(***************************************************************************)
Pending(op) == [op |-> op, tag |-> "Pending"]

CanCall(op) ==
    /\ fg.pc = "idle"
    /\ handle = "alive"
    /\ nCalls < menu.calls
    /\ op \in menu.ops

\* send_recv, up to the point where it waits in recv(): the command is
\* written, or the write fails and the operation returns the error
SendRecv(op, cmd, waiting) ==
    \E ok \in SendOutcomes :
        IF ok
        THEN /\ sink' = Append(sink, cmd)
             /\ fg' = waiting
             /\ result' = Pending(op)
        ELSE /\ sink' = sink
             /\ fg' = Idle
             /\ result' = Err(op, ErrTransport("ConnectionClosed"))

\* an operation returns res (or panics) after its recv()
Return(res) ==
    /\ result' = res
    /\ fg' = IF res.tag = "Panic" THEN [pc |-> "panicked"] ELSE Idle
    /\ handle' = IF res.tag = "Panic" THEN "dropped" ELSE handle
    /\ replyQ' = IF res.tag = "Panic" THEN <<>> ELSE Rest

CallKeyExchange(cert) ==
    /\ CanCall("key_exchange")
    /\ nCalls' = nCalls + 1
    /\ IF ~parse_cert_ok(cert)
       THEN /\ result' = Err("key_exchange", ErrSessionKey)
            /\ UNCHANGED <<nSessions, sink, fg>>
       ELSE /\ nSessions' = nSessions + 1
            /\ SendRecv("key_exchange",
                        [path |-> "jdev/sys/keyexchange", sid |-> nSessions + 1],
                        [pc |-> "key_exchange", new |-> nSessions + 1])
    /\ UNCHANGED <<authenticated, menu, serverVars, loopVars, replyQ, evQ, handle, rxEv, session, reply, subVars>>

\* a key_exchange that stores the new session whatever the reply
KeyExchangeReply_AlwaysAdopt ==
    /\ fg.pc = "key_exchange"
    /\ RecvReady
    /\ reply' = Got
    /\ session' = fg.new
    /\ Return(key_exchange_reply(Got))
    /\ UNCHANGED <<authenticated, menu, serverVars, loopVars, evQ, rxEv, nSessions, sink, nCalls, subVars>>

KeyExchangeReply ==
    /\ fg.pc = "key_exchange"
    /\ RecvReady
    /\ reply' = Got
    /\ LET res == key_exchange_reply(Got)
       IN  /\ session' = IF res.tag = "Ok" THEN fg.new ELSE session
           /\ Return(res)
    /\ UNCHANGED <<authenticated, menu, serverVars, loopVars, evQ, rxEv, nSessions, sink, nCalls, subVars>>

CallAuthenticate(token) ==
    /\ CanCall("authenticate")
    /\ nCalls' = nCalls + 1
    /\ SendRecv("authenticate", Cmd("jdev/sys/getkey"), [pc |-> "get_key", token |-> token])
    /\ UNCHANGED <<authenticated, menu, serverVars, loopVars, replyQ, evQ, handle, rxEv, session, nSessions,
                   reply, subVars>>

CallGetJwt ==
    /\ CanCall("get_jwt")
    /\ nCalls' = nCalls + 1
    /\ SendRecv("get_jwt", Cmd("jdev/sys/getkey2"), [pc |-> "get_key_salt"])
    /\ UNCHANGED <<authenticated, menu, serverVars, loopVars, replyQ, evQ, handle, rxEv, session, nSessions,
                   reply, subVars>>

\* the reply to the first request of authenticate / get_jwt, and what follows
\* up to the wait for the second reply
KeyStep(op, next, waiting) ==
    /\ reply' = Got
    /\ IF next.tag = "Send"
       THEN /\ SendRecv(op, next.cmd, waiting)
            /\ replyQ' = Rest
            /\ UNCHANGED handle
       ELSE /\ Return(next)
            /\ UNCHANGED sink
    /\ UNCHANGED <<authenticated, menu, serverVars, loopVars, evQ, rxEv, session, nSessions, nCalls, subVars>>

GetKeyReply ==
    /\ fg.pc = "get_key"
    /\ RecvReady
    /\ KeyStep("authenticate", authenticate_after_key(get_key_reply(Got), fg.token),
               [pc |-> "authwithtoken"])

GetKeySaltReply ==
    /\ fg.pc = "get_key_salt"
    /\ RecvReady
    /\ KeyStep("get_jwt", get_jwt_after_key(get_key_salt_reply(Got)), [pc |-> "getjwt"])

\* the reply that ends an operation
FinalReply(res) ==
    /\ RecvReady
    /\ reply' = Got
    /\ Return(res)
    /\ authenticated' = (authenticated \/ (res.tag = "Ok" /\ res.op \in {"authenticate", "get_jwt"}))
    /\ UNCHANGED <<menu, serverVars, loopVars, evQ, rxEv, session, nSessions, sink, nCalls,
                   subVars>>

AuthenticateReply == fg.pc = "authwithtoken" /\ FinalReply(authenticate_reply(Got))

GetJwtReply == fg.pc = "getjwt" /\ FinalReply(get_jwt_reply(Got))

SimpleCall(op, cmd, waiting) ==
    /\ CanCall(op)
    /\ nCalls' = nCalls + 1
    /\ SendRecv(op, cmd, waiting)
    /\ UNCHANGED <<authenticated, menu, serverVars, loopVars, replyQ, evQ, handle, rxEv, session, nSessions,
                   reply, subVars>>

CallGetLoxapp3 == SimpleCall("get_loxapp3", Cmd("data/LoxAPP3.json"), [pc |-> "loxapp3"])

GetLoxapp3Reply == fg.pc = "loxapp3" /\ FinalReply(get_loxapp3_reply(Got))

CallGetLoxapp3Timestamp ==
    SimpleCall("get_loxapp3_timestamp", Cmd("jdev/sps/LoxAPPversion3"), [pc |-> "timestamp"])

GetLoxapp3TimestampReply ==
    fg.pc = "timestamp" /\ FinalReply(get_loxapp3_timestamp_reply(Got))

CallSendIoCmd == SimpleCall("send_io_cmd", Cmd("jdev/sps/io"), [pc |-> "io"])

SendIoCmdReply == fg.pc = "io" /\ FinalReply(send_io_cmd_reply(Got))

(***************************************************************************)
(* enable_status_update and the subscription stream.                       *)
(***************************************************************************)
\* a snapshot that stops one table short
SnapshotTables_OneShort == 4 - 1

\* rx.rx.by_ref().take(4)
SnapshotTables == 4

\* enable_status_update behind a check for a preceding authentication
CallEnableStatusUpdate_AuthChecked ==
    /\ CanCall("enable_status_update")
    /\ rxEv = "held"
    /\ nCalls' = nCalls + 1
    /\ IF authenticated
       THEN /\ SendRecv("enable_status_update", CmdEnable, [pc |-> "enable"])
            /\ rxEv' = IF fg'.pc = "enable" THEN "moved" ELSE "dropped"
            /\ evQ' = IF fg'.pc = "enable" THEN evQ ELSE <<>>
       ELSE /\ result' = Err("enable_status_update", ErrTransport("PermissionDenied"))
            /\ rxEv' = "dropped"
            /\ evQ' = <<>>
            /\ UNCHANGED <<sink, fg>>
    /\ UNCHANGED <<authenticated, menu, serverVars, loopVars, replyQ, handle, session, nSessions, reply,
                   subVars>>

CallEnableStatusUpdate ==
    /\ CanCall("enable_status_update")
    /\ rxEv = "held"
    /\ nCalls' = nCalls + 1
    /\ SendRecv("enable_status_update", CmdEnable, [pc |-> "enable"])
    /\ rxEv' = IF fg'.pc = "enable" THEN "moved" ELSE "dropped"
    /\ evQ' = IF fg'.pc = "enable" THEN evQ ELSE <<>>
    /\ UNCHANGED <<authenticated, menu, serverVars, loopVars, replyQ, handle, session, nSessions, reply,
                   subVars>>

\* the reply to the command: on "200" / "1" the operation goes on to collect
\* the snapshot; otherwise it returns and its EventReceiver is dropped
EnableStatusUpdateReply ==
    /\ fg.pc = "enable"
    /\ RecvReady
    /\ reply' = Got
    /\ LET res == enable_status_update_reply(Got)
       IN  IF res.tag = "Ok"
           THEN /\ fg' = [pc |-> "snapshot"]
                /\ replyQ' = Rest
                /\ initial_state' = NoMap
                /\ snapTables' = <<>>
                /\ UNCHANGED <<result, handle, rxEv, evQ>>
           ELSE /\ Return(res)
                /\ rxEv' = "dropped"
                /\ evQ' = <<>>
                /\ UNCHANGED <<initial_state, snapTables>>
    /\ UNCHANGED <<authenticated, menu, serverVars, loopVars, session, nSessions, sink, nCalls, streamOut>>

\* a snapshot that takes the newest queued table first
SnapshotTake_NewestFirst ==
    /\ fg.pc = "snapshot"
    /\ evQ # <<>>
    /\ LET e == evQ[Len(evQ)]
           state == Extend(initial_state, IntoHashMap(e.table.events))
           taken == Append(snapTables,
                           [seq |-> e.seq, kind |-> e.table.kind, afterCmd |-> e.afterCmd,
                            events |-> e.table.events])
       IN  /\ evQ' = SubSeq(evQ, 1, Len(evQ) - 1)
           /\ initial_state' = state
           /\ snapTables' = taken
           /\ IF Len(taken) = SnapshotTables
              THEN /\ fg' = Idle
                   /\ result' = Ok("enable_status_update", state)
                   /\ rxEv' = "stream"
              ELSE UNCHANGED <<fg, result, rxEv>>
    /\ UNCHANGED <<authenticated, menu, serverVars, loopVars, replyQ, handle, session, nSessions, sink, reply,
                   nCalls, streamOut>>

\* take(4).map(into).concat(): one more event table is folded into the snapshot;
\* the fourth one completes the operation
SnapshotTake ==
    /\ fg.pc = "snapshot"
    /\ evQ # <<>>
    /\ LET e == Head(evQ)
           state == Extend(initial_state, IntoHashMap(e.table.events))
           taken == Append(snapTables,
                           [seq |-> e.seq, kind |-> e.table.kind, afterCmd |-> e.afterCmd,
                            events |-> e.table.events])
       IN  /\ evQ' = Tail(evQ)
           /\ initial_state' = state
           /\ snapTables' = taken
           /\ IF Len(taken) = SnapshotTables
              THEN /\ fg' = Idle
                   /\ result' = Ok("enable_status_update", state)
                   /\ rxEv' = "stream"
              ELSE UNCHANGED <<fg, result, rxEv>>
    /\ UNCHANGED <<authenticated, menu, serverVars, loopVars, replyQ, handle, session, nSessions, sink, reply,
                   nCalls, streamOut>>

\* a snapshot that gives up as soon as no table is queued
SnapshotEnd_WhenQueueEmpty ==
    /\ fg.pc = "snapshot"
    /\ evQ = <<>>
    /\ fg' = Idle
    /\ result' = Ok("enable_status_update", initial_state)
    /\ rxEv' = "stream"
    /\ UNCHANGED <<authenticated, menu, serverVars, loopVars, replyQ, evQ, handle, session, nSessions, sink,
                   reply, nCalls, subVars>>

\* the event queue ends (tx_events dropped, nothing queued) before the fourth table
SnapshotEnd ==
    /\ fg.pc = "snapshot"
    /\ evQ = <<>>
    /\ ~LoopRunning
    /\ fg' = Idle
    /\ result' = Ok("enable_status_update", initial_state)
    /\ rxEv' = "stream"
    /\ UNCHANGED <<authenticated, menu, serverVars, loopVars, replyQ, evQ, handle, session, nSessions, sink,
                   reply, nCalls, subVars>>

\* rx.rx.flat_map(|event_table| stream::iter(event_table.into())): the subscriber
\* polls the stream, which takes the next table and yields the entries of its map
StreamNext ==
    /\ rxEv = "stream"
    /\ evQ # <<>>
    /\ LET e == Head(evQ)
           m == IntoHashMap(e.table.events)
       IN  \E order \in IterOrders(m) :
               streamOut' = [seq |-> e.seq, events |-> e.table.events, pairs |-> Pairs(m, order)]
    /\ evQ' = Tail(evQ)
    /\ UNCHANGED <<menu, serverVars, loopVars, replyQ, handle, rxEv, fgVars, initial_state,
                   snapTables>>

StreamEnd ==
    /\ rxEv = "stream"
    /\ evQ = <<>>
    /\ ~LoopRunning
    /\ rxEv' = "ended"
    /\ UNCHANGED <<menu, serverVars, loopVars, replyQ, evQ, handle, fgVars, subVars>>

\* the caller drops the EventReceiver, or the stream made from it
DropEvents ==
    /\ menu.drops
    /\ rxEv \in {"held", "stream"}
    /\ rxEv' = "dropped"
    /\ evQ' = <<>>
    /\ UNCHANGED <<menu, serverVars, loopVars, replyQ, handle, fgVars, subVars>>

\* the caller drops the WebSocket
DropHandle ==
    /\ menu.drops
    /\ fg.pc = "idle"
    /\ handle = "alive"
    /\ handle' = "dropped"
    /\ replyQ' = <<>>
    /\ UNCHANGED <<menu, serverVars, loopVars, evQ, rxEv, fgVars, subVars>>

Next ==
    \/ \E t \in ReplyTemplates \cup EventTemplates \cup ControlTemplates : ServerSend(t)
    \/ TransportClose
    \/ SkipErrItem
    \/ RecvHeader
    \/ RecvLen
    \/ RecvBody
    \/ RecvEof
    \/ \E cert \in Certs : CallKeyExchange(cert)
    \/ KeyExchangeReply
    \/ \E token \in Tokens : CallAuthenticate(token)
    \/ GetKeyReply
    \/ AuthenticateReply
    \/ CallGetJwt
    \/ GetKeySaltReply
    \/ GetJwtReply
    \/ CallGetLoxapp3
    \/ GetLoxapp3Reply
    \/ CallGetLoxapp3Timestamp
    \/ GetLoxapp3TimestampReply
    \/ CallEnableStatusUpdate
    \/ EnableStatusUpdateReply
    \/ SnapshotTake
    \/ SnapshotEnd
    \/ StreamNext
    \/ StreamEnd
    \/ CallSendIoCmd
    \/ SendIoCmdReply
    \/ DropEvents
    \/ DropHandle

Spec == Init /\ [][Next]_vars

(***************************************************************************)
(* Properties.                                                             *)
(***************************************************************************)
ReplyTags == {"Text", "BinaryText", "BinaryFile"}
WaitingPcs ==
    {"key_exchange", "get_key", "authwithtoken", "get_key_salt", "getjwt", "loxapp3",
     "timestamp", "enable", "io"}
Last(s) == s[Len(s)]

\* C1: recv_loop forwards Text, BinaryText and BinaryFile messages only to the
\* reply queue and event tables only to the event queue; a KeepAlive or an
\* OutOfServiceIndicator goes to neither queue and leaves the waiting request
\* as it is (not completed, not failed).
C1_Routing ==
    [][/\ \A i \in 1..Len(replyQ') : replyQ'[i].tag \in ReplyTags
       /\ \A i \in 1..Len(evQ') : evQ'[i].table.tag = "EventTable"
       /\ nDecoded' # nDecoded =>
            /\ msg'.tag \in {"KeepAlive", "OutOfServiceIndicator"} =>
                    UNCHANGED <<replyQ, evQ, fg, result, reply>>
            /\ msg'.tag \in ReplyTags =>
                    /\ evQ' = evQ
                    /\ replyQ' = IF handle = "alive" THEN Append(replyQ, msg') ELSE replyQ
            /\ msg'.tag = "EventTable" =>
                    /\ replyQ' = replyQ
                    /\ \/ evQ' = evQ /\ rxEv \in {"dropped", "ended"}
                       \/ /\ Len(evQ') = Len(evQ) + 1
                          /\ Last(evQ').table = msg'
                          /\ SubSeq(evQ', 1, Len(evQ)) = evQ]_vars

\* a request is waiting on an empty reply queue and the last message decoded
\* was a KeepAlive
C1_Witness ==
    /\ fg.pc \in WaitingPcs
    /\ result.tag = "Pending"
    /\ replyQ = <<>>
    /\ msg.tag = "KeepAlive"
    /\ nDecoded >= 2

\* what the JSON text of a reply carries in LL.<field>, read with serde_json
StatusOf(text, field) ==
    LET j == from_str(text)
    IN  IF j.ok /\ MapHasKey(j.map, "LL") THEN as_str(ValueIndex(j.map.LL, field))
        ELSE [some |-> FALSE]

ValueOf(text) ==
    LET j == from_str(text)
    IN  IF j.ok /\ MapHasKey(j.map, "LL") THEN as_str(ValueIndex(j.map.LL, "value"))
        ELSE [some |-> FALSE]

IsText(got) == got.some /\ got.msg.tag = "Text"

\* C2: key_exchange sets the session only when the reply to that call is a Text
\* message with status "200" and a decodable LL.value, and then returns the
\* decoded remote key; a reply with another status returns InvalidStatusCode
\* with that status and leaves the session as it was.
C2_SessionAdoption ==
    [][/\ session' # session => fg.pc = "key_exchange"
       /\ (fg.pc = "key_exchange" /\ fg'.pc # "key_exchange") =>
            LET good == /\ IsText(reply')
                        /\ StatusOf(reply'.msg.text, "Code") = [some |-> TRUE, s |-> "200"]
                        /\ ValueOf(reply'.msg.text).some
                        /\ base64_decode(ValueOf(reply'.msg.text).s).ok
            IN  /\ good =>
                    /\ session' = fg.new
                    /\ result' = Ok("key_exchange",
                                    base64_decode(ValueOf(reply'.msg.text).s).bytes)
                /\ ~good => session' = session /\ result'.tag # "Ok"
                /\ (IsText(reply') /\ StatusOf(reply'.msg.text, "Code").some
                        /\ StatusOf(reply'.msg.text, "Code").s # "200") =>
                    result' = Err("key_exchange",
                                  ErrInvalidStatusCode(StatusOf(reply'.msg.text, "Code").s))]_vars

\* a second key_exchange is refused with 401 while the session of the first is in use
C2_Witness ==
    /\ nSessions = 2
    /\ session = 1
    /\ result = Err("key_exchange", ErrInvalidStatusCode("401"))

\* C3: send_recv_enc without a session returns the permission-denied error,
\* writes no frame and takes nothing from the reply queue.  (It is reached after
\* the reply to the key request of authenticate / get_jwt has been taken.)
C3_NoSessionNoWrite ==
    [][/\ (fg.pc \in {"get_key", "get_key_salt"} /\ session = 0 /\ fg'.pc # fg.pc) =>
            /\ fg'.pc \in {"idle", "panicked"}
            /\ sink' = sink
       /\ (result' # result /\ result'.tag = "Err"
                /\ result'.err = ErrTransport("PermissionDenied")) =>
            /\ session = 0
            /\ sink' = sink
            /\ replyQ' = Rest
       /\ (sink' # sink /\ Last(sink').path = "jdev/sys/enc") =>
            session # 0 /\ Last(sink').sid = session]_vars

\* authenticate got its key and then failed in send_recv_enc: one command written
C3_Witness ==
    /\ session = 0
    /\ result = Err("authenticate", ErrTransport("PermissionDenied"))
    /\ Len(sink) = 1
    /\ reply.some

\* C4 as stated: the enablebinstatusupdate command is written only when an
\* authenticate or get_jwt call has succeeded before on this connection.
C4_Original == EnableSent => authenticated

\* C4 as amended: enable_status_update writes its command in whatever state the
\* connection is in (the client keeps no authentication state): every call
\* writes the command unless the write itself fails on a closed transport; and
\* it returns a snapshot only after a Text reply with status "200" and value "1".
C4_EnableInAnyState ==
    [][/\ (fg.pc = "idle" /\ nCalls' # nCalls /\ result'.op = "enable_status_update") =>
            \/ sink' = Append(sink, CmdEnable) /\ fg'.pc = "enable"
            \/ /\ closed
               /\ sink' = sink
               /\ result' = Err("enable_status_update", ErrTransport("ConnectionClosed"))
       /\ (fg.pc = "enable" /\ fg'.pc = "snapshot") =>
            /\ IsText(reply')
            /\ StatusOf(reply'.msg.text, "Code") = [some |-> TRUE, s |-> "200"]
            /\ ValueOf(reply'.msg.text) = [some |-> TRUE, s |-> "1"]
       /\ (result' # result /\ result'.tag = "Ok" /\ result'.op = "enable_status_update") =>
            fg.pc = "snapshot"]_vars

\* a snapshot was returned on a connection that never exchanged keys
C4_Witness ==
    /\ session = 0
    /\ ~authenticated
    /\ EnableSent
    /\ result.tag = "Ok"
    /\ result.op = "enable_status_update"

AuthPcs == {"get_key", "get_key_salt", "authwithtoken", "getjwt"}

\* the call in progress was given a well-formed token (get_jwt takes none)
WellFormedCall == fg.pc = "get_key" => fg.token = "good"

\* C5: authenticate and get_jwt return success only with a session in use; a
\* (well-formed) call made on a connection without one ends by returning an
\* error, whatever the server replies.
C5_AuthNeedsSession ==
    [][/\ (result' # result /\ result'.tag = "Ok" /\ result'.op \in {"authenticate", "get_jwt"})
            => session # 0 /\ session' = session
       /\ (fg'.pc \in {"authwithtoken", "getjwt"}) => session # 0
       /\ (fg.pc \in AuthPcs /\ fg'.pc \notin AuthPcs /\ session = 0 /\ WellFormedCall)
            => result'.tag = "Err"]_vars

\* The part of C5 that does not depend on how a call without a session ends:
\* no success and no second request without a session, and a call that does
\* return there returns an error.
C5_NoSuccessWithoutSession ==
    [][/\ (result' # result /\ result'.tag = "Ok" /\ result'.op \in {"authenticate", "get_jwt"})
            => session # 0 /\ session' = session
       /\ (fg'.pc \in {"authwithtoken", "getjwt"}) => session # 0
       /\ (fg.pc \in AuthPcs /\ fg'.pc = "idle" /\ session = 0) => result'.tag = "Err"]_vars

\* C6: the pairs the subscription stream yields for a table are one pair per
\* record of the body, in record order, also when two records share a UUID.
C6_PairsFollowRecords ==
    streamOut.seq # 0 =>
        streamOut.pairs = [i \in 1..Len(streamOut.events) |->
                              <<streamOut.events[i].uuid, streamOut.events[i].state>>]

\* C7: the subscriber takes the event tables in the order recv_loop decoded
\* them: the first four for the snapshot, the later ones for the stream, none
\* dropped, duplicated or overtaken.
C7_TablesInOrder ==
    /\ \A i \in 1..Len(snapTables) : snapTables[i].seq = i
    /\ Len(snapTables) <= SnapshotTables
    /\ rxEv \in {"held", "moved", "stream"} =>
            \A i \in 1..Len(evQ) : evQ[i].seq = nTables - Len(evQ) + i
    /\ rxEv = "held" => Len(evQ) = nTables
    /\ rxEv = "moved" => Len(snapTables) + Len(evQ) = nTables \/ fg.pc = "enable"
    /\ (rxEv = "stream" /\ streamOut.seq = 0) => Len(snapTables) + Len(evQ) = nTables
    /\ streamOut.seq # 0 =>
            /\ streamOut.seq > Len(snapTables)
            /\ rxEv = "stream" => streamOut.seq + Len(evQ) = nTables

\* the stream has delivered the fifth table
C7_Witness == Len(snapTables) = 4 /\ streamOut.seq = 5 /\ rxEv = "stream"

AllAfterCmd(ts) == \A i \in 1..Len(ts) : ts[i].afterCmd
OneOfEachKind(ts) ==
    {ts[i].kind : i \in 1..Len(ts)} =
        {"ValueEvents", "TextEvents", "DaytimerEvents", "WeatherEvents"}

RECURSIVE FoldTables(_, _)
FoldTables(ts, n) ==
    IF n = 0 THEN NoMap ELSE Extend(FoldTables(ts, n - 1), IntoHashMap(ts[n].events))

EnableReturned == result.tag = "Ok" /\ result.op = "enable_status_update"

\* C8 as stated: the snapshot is built from exactly four tables received after
\* the command was sent, one of each kind.
C8_Original ==
    EnableReturned =>
        /\ Len(snapTables) = 4
        /\ AllAfterCmd(snapTables)
        /\ OneOfEachKind(snapTables)

\* C8 as amended: the snapshot is built from the first tables of the event
\* queue in the order they were decoded - at most four, and exactly four
\* unless recv_loop has ended - of whatever kinds, and whether they were
\* received before or after the command was sent.
C8_SnapshotFromFirstTables ==
    EnableReturned =>
        /\ Len(snapTables) <= 4
        /\ Len(snapTables) < 4 => ~LoopRunning
        /\ \A i \in 1..Len(snapTables) : snapTables[i].seq = i
        /\ result.val = FoldTables(snapTables, Len(snapTables))

\* four tables, two of them of the same kind and one received before the command
C8_Witness ==
    /\ EnableReturned
    /\ Len(snapTables) = 4
    /\ ~OneOfEachKind(snapTables)
    /\ ~AllAfterCmd(snapTables)
    /\ LoopRunning

\* the status field each waiting operation reads
StatusField(pc) == IF pc \in {"authwithtoken", "get_key_salt", "getjwt"} THEN "code" ELSE "Code"

ReplyJsonOk(got) == IsText(got) /\ from_str(got.msg.text).ok

\* C9: for every request operation a Text reply with a status other than "200"
\* makes it return InvalidStatusCode with that status, and a reply without
\* the status field makes it return a missing-field error; neither aborts.
C9_StatusErrorsReturned ==
    [][(fg.pc \in WaitingPcs \ {"loxapp3"} /\ fg' # fg /\ ReplyJsonOk(reply')) =>
            LET st == StatusOf(reply'.msg.text, StatusField(fg.pc))
                e == IF result'.tag = "Err" /\ result'.err.kind = "KeyRequest"
                     THEN result'.err.inner ELSE result'.err
            IN  /\ (st.some /\ st.s # "200") =>
                    result'.tag = "Err" /\ e = ErrInvalidStatusCode(st.s)
                /\ ~st.some => result'.tag = "Err" /\ e.kind = "JsonMissingField"]_vars

\* The executor polls a task whose wait can complete: a foreground step that
\* stays possible is eventually taken.
FgReply ==
    \/ KeyExchangeReply
    \/ GetKeyReply
    \/ AuthenticateReply
    \/ GetKeySaltReply
    \/ GetJwtReply
    \/ GetLoxapp3Reply
    \/ GetLoxapp3TimestampReply
    \/ EnableStatusUpdateReply
    \/ SendIoCmdReply

InitLive ==
    /\ menu = LiveMenu
    /\ stream = <<>>
    /\ closed = FALSE
    /\ sentTpl = {}
    /\ loop = [pc |-> "header"]
    /\ msg = [tag |-> "None"]
    /\ nDecoded = 0
    /\ nTables = 0
    /\ replyQ = <<>>
    /\ evQ = <<>>
    /\ handle = "alive"
    /\ rxEv = "held"
    /\ session = 0
    /\ nSessions = 0
    /\ sink = <<>>
    /\ fg = Idle
    /\ reply = [some |-> FALSE]
    /\ result = [op |-> "none", tag |-> "None"]
    /\ nCalls = 0
    /\ authenticated = FALSE
    /\ initial_state = NoMap
    /\ snapTables = <<>>
    /\ streamOut = [seq |-> 0]

NextLive ==
    \/ \E t \in LiveMenu.templates : ServerSend(t)
    \/ TransportClose
    \/ RecvHeader
    \/ RecvBody
    \/ RecvEof
    \/ \E token \in Tokens : CallAuthenticate(token)
    \/ GetKeyReply
    \/ CallGetLoxapp3
    \/ GetLoxapp3Reply
    \/ CallGetLoxapp3Timestamp
    \/ GetLoxapp3TimestampReply

FairSpec == InitLive /\ [][NextLive]_vars /\ WF_vars(FgReply)

IsBrokenPipe(r) ==
    /\ r.tag = "Err"
    /\ \/ r.err = ErrTransport("BrokenPipe")
       \/ r.err = ErrKeyRequest(ErrTransport("BrokenPipe"))

\* C10: if recv_loop has ended while a send_recv waits and no reply is queued
\* for it, the send_recv eventually returns the broken-pipe error.
C10_BrokenPipeAfterLoopEnd ==
    (~LoopRunning /\ fg.pc \in WaitingPcs /\ replyQ = <<>>) ~> IsBrokenPipe(result)

\* an operation has returned the broken-pipe error after the transport closed
C10_Witness ==
    /\ ~LoopRunning
    /\ closed
    /\ IsBrokenPipe(result)
    /\ fg.pc = "idle"
    /\ Len(sink) >= 1

(***************************************************************************)
(* recv_loop on its own: the frames are already in the transport stream,   *)
(* well-formed or not, and the stream ends after them.                     *)
(***************************************************************************)
MaxItemsDec == 2

DecTemplates ==
    EventTemplates \cup ControlTemplates \cup MalformedTemplates \cup LengthTemplates
        \cup UuidTemplates \cup PaddingTemplates \cup NegativeTemplates \cup {"R_Code200_1"}

DecMenu ==
    [name |-> "dec", templates |-> DecTemplates, max |-> 0, ops |-> {}, calls |-> 0,
     drops |-> FALSE]

RECURSIVE FramesOf(_)
FramesOf(ts) == IF ts = <<>> THEN <<>> ELSE Frames(Head(ts)) \o FramesOf(Tail(ts))

DecItems == UNION {[1..n -> DecTemplates] : n \in 1..MaxItemsDec}

\* the state after connect, with the given frames received and not yet read
InitWith(m, sent, frames, ended) ==
    /\ menu = m
    /\ stream = frames
    /\ closed = ended
    /\ sentTpl = sent
    /\ loop = [pc |-> "header"]
    /\ msg = [tag |-> "None"]
    /\ nDecoded = 0
    /\ nTables = 0
    /\ replyQ = <<>>
    /\ evQ = <<>>
    /\ handle = "alive"
    /\ rxEv = "held"
    /\ session = 0
    /\ nSessions = 0
    /\ sink = <<>>
    /\ fg = Idle
    /\ reply = [some |-> FALSE]
    /\ result = [op |-> "none", tag |-> "None"]
    /\ nCalls = 0
    /\ authenticated = FALSE
    /\ initial_state = NoMap
    /\ snapTables = <<>>
    /\ streamOut = [seq |-> 0]

InitDec ==
    \E ts \in DecItems : InitWith(DecMenu, {ts[i] : i \in 1..Len(ts)}, FramesOf(ts), TRUE)

NextDec ==
    \/ SkipErrItem
    \/ RecvHeader
    \/ RecvLen
    \/ RecvBody
    \/ RecvEof

DecSpec == InitDec /\ [][NextDec]_vars

\* the transport stream has yielded its error item to recv_loop
ErrYielded == "ErrItem" \in sentTpl /\ (stream = <<>> \/ Head(stream).kind # "Err")

\* C11: once the transport stream has yielded an error item the demultiplexer
\* has stopped: it reads no frame that follows the error and decodes no
\* further message.
C11_ErrorItemStopsLoop ==
    [][ErrYielded => (nDecoded' = nDecoded /\ Len(stream') >= Len(stream))]_vars

(***************************************************************************)
(* A caller that may drop its WebSocket, under a fair executor: a step of  *)
(* recv_loop or of the foreground task that stays possible is taken.  The  *)
(* server and the transport are not obliged to do anything.                *)
(***************************************************************************)
DropMenu ==
    [name |-> "drop", templates |-> {"KeepAlive", "ValueOne", "R_Code200_1"},
     max |-> MaxMsgsLive, ops |-> {"send_io_cmd"}, calls |-> MaxCallsLive, drops |-> TRUE]

InitDrop == InitWith(DropMenu, {}, <<>>, FALSE)

LoopStep == RecvHeader \/ RecvBody \/ RecvEof

NextDrop ==
    \/ \E t \in DropMenu.templates : ServerSend(t)
    \/ TransportClose
    \/ RecvHeader
    \/ RecvBody
    \/ RecvEof
    \/ CallSendIoCmd
    \/ SendIoCmdReply
    \/ DropHandle

DropSpec == InitDrop /\ [][NextDrop]_vars /\ WF_vars(LoopStep) /\ WF_vars(FgReply)

\* C12: after the WebSocket handle is dropped the demultiplexer loop
\* eventually terminates, whatever the server sends afterwards (event tables,
\* keep-alives or nothing).
C12_LoopEndsAfterDrop == (handle = "dropped") ~> ~LoopRunning

EventTableTypes ==
    {"ValueEventTable", "TextEventTable", "DaytimerEventTable", "WeatherEventTable"}

\* the loop of parse_msg_body over the body of an event table, with the cursor
\* position it ends at
DecodeEvents(msg_type, buf, msg_len) ==
    CASE msg_type = "ValueEventTable" -> ParseValueEvents(buf, msg_len, 0, <<>>)
      [] msg_type = "TextEventTable" -> ParseTextEvents(buf, msg_len, 0, <<>>)
      [] msg_type = "DaytimerEventTable" -> ParseDaytimerEvents(buf, msg_len, 0, <<>>)
      [] msg_type = "WeatherEventTable" -> ParseWeatherEvents(buf, msg_len, 0, <<>>)

\* recv_loop is about to decode the binary body frame of an event table
AtTableBody ==
    /\ loop.pc = "body"
    /\ loop.msg_type \in EventTableTypes
    /\ stream # <<>>
    /\ Head(stream).kind = "Binary"

\* C13: whenever the body of an event table is decoded into a message, the
\* cursor has ended exactly at msg_len (so no record reaches to or beyond
\* offset msg_len), also when the body frame is longer than msg_len.
C13_CursorEndsAtMsgLen ==
    [][(AtTableBody /\ nDecoded' = nDecoded + 1) =>
            DecodeEvents(loop.msg_type, Head(stream).data, loop.msg_len).pos = loop.msg_len]_vars

\* recv_loop is about to read a frame in header position
AtHeader == loop.pc = "header" /\ stream # <<>> /\ Head(stream).kind # "Err"

\* the step ends recv_loop and puts nothing on either queue
FatalStep ==
    /\ loop' = Dead
    /\ nDecoded' = nDecoded
    /\ replyQ' = replyQ
    /\ evQ' = evQ

\* once recv_loop has ended no frame is read and nothing is queued
DeadLoopIdle == loop.pc = "dead" => UNCHANGED <<stream, loop, msg, nDecoded, replyQ, evQ>>

UnknownTypeHeader ==
    /\ AtHeader
    /\ Head(stream).kind = "Binary"
    /\ Len(Head(stream).data) >= 2
    /\ Head(stream).data[2] \notin 0..7

\* C14: reading a header frame whose type-code byte is outside 0..7 ends
\* recv_loop without a message on either queue, and once recv_loop has ended
\* no later frame is read.
C14_UnknownTypeFatal == [][(UnknownTypeHeader => FatalStep) /\ DeadLoopIdle]_vars

\* the header with type code 8 was read, and the keep-alive after it is still
\* unread when the stream has ended
C14_Witness ==
    /\ sentTpl = {"BadType", "KeepAlive"}
    /\ stream = Frames("KeepAlive")
    /\ loop.pc = "dead"
    /\ nDecoded = 0
    /\ replyQ = <<>> /\ evQ = <<>>

BadMagicHeader ==
    /\ AtHeader
    /\ Head(stream).kind = "Binary"
    /\ Len(Head(stream).data) >= 1
    /\ Head(stream).data[1] # 3

\* C15: reading a binary header frame whose byte 0 is not the magic 0x03
\* yields no message, puts nothing on either queue, and leaves recv_loop
\* waiting for neither a length frame nor a body frame on its behalf.
C15_BadMagicRejected ==
    [][BadMagicHeader =>
            /\ nDecoded' = nDecoded
            /\ replyQ' = replyQ
            /\ evQ' = evQ
            /\ loop'.pc \notin {"len", "body"}]_vars

\* recv_loop is about to read a frame in body position
AtBody == loop.pc = "body" /\ stream # <<>> /\ Head(stream).kind # "Err"

WrongBodyKind ==
    /\ AtBody
    /\ \/ loop.msg_type = "Text" /\ Head(stream).kind # "Text"
       \/ loop.msg_type \in EventTableTypes /\ Head(stream).kind # "Binary"
       \/ loop.msg_type = "BinaryFile" /\ Head(stream).kind \notin {"Text", "Binary"}

\* C16: a body frame of the wrong kind for the declared type, and a frame
\* other than a binary one in header position, end recv_loop without a
\* message on either queue, and once recv_loop has ended no later frame is
\* read; for type 1 a text body yields BinaryText and a binary body
\* BinaryFile, each carrying the frame's payload.
C16_WrongFrameKindFatal ==
    [][/\ WrongBodyKind => FatalStep
       /\ (AtHeader /\ Head(stream).kind # "Binary") => FatalStep
       /\ (AtBody /\ loop.msg_type = "BinaryFile" /\ Head(stream).kind = "Text") =>
               msg' = MsgBinaryText(Head(stream).text) /\ nDecoded' = nDecoded + 1
       /\ (AtBody /\ loop.msg_type = "BinaryFile" /\ Head(stream).kind = "Binary") =>
               msg' = MsgBinaryFile(Head(stream).data) /\ nDecoded' = nDecoded + 1
       /\ DeadLoopIdle]_vars

\* a type-1 header with a binary body was decoded as BinaryFile, then the
\* binary body after a type-0 header ended recv_loop
C16_Witness ==
    /\ sentTpl = {"BinFile", "TextBodyBinary"}
    /\ stream = <<>>
    /\ loop.pc = "dead"
    /\ nDecoded = 1
    /\ msg.tag = "BinaryFile"
    /\ replyQ = <<msg>>

\* an eight-byte header with type code c and info byte 0 is about to be read
BodilessHeader(c) ==
    /\ AtHeader
    /\ Head(stream).kind = "Binary"
    /\ Len(Head(stream).data) >= 8
    /\ Head(stream).data[2] = c
    /\ Head(stream).data[3] = 0

\* C17: reading a header with type code 5 or 6 and info byte 0 consumes that
\* one frame, yields OutOfServiceIndicator or KeepAlive respectively, and
\* leaves recv_loop reading the following frame as the next header.
C17_BodilessTypes ==
    [][/\ BodilessHeader(5) =>
            /\ stream' = Tail(stream)
            /\ msg' = MsgOutOfServiceIndicator
            /\ nDecoded' = nDecoded + 1
            /\ loop' = [pc |-> "header"]
       /\ BodilessHeader(6) =>
            /\ stream' = Tail(stream)
            /\ msg' = MsgKeepAlive
            /\ nDecoded' = nDecoded + 1
            /\ loop' = [pc |-> "header"]]_vars

\* an out-of-service indicator and a keep-alive, one frame each, were both
\* decoded
C17_Witness ==
    /\ sentTpl = {"OutOfService", "KeepAlive"}
    /\ stream = <<>>
    /\ nDecoded = 2
    /\ loop.pc = "header"

\* C18 as stated: once a session is active, WebSocket.session keeps the same
\* key material in every later step, whatever operation is called.
C18_Original == [][session # 0 => session' = session]_vars

\* C18: WebSocket.session changes only when a key_exchange call returns Ok,
\* and then to the Session that call created (also when a session was already
\* active: the earlier one is replaced); a key_exchange that fails, and every
\* other operation, leaves it as it was; and every encrypted command is
\* written with the key material of the session active at that moment.
C18_SessionReplacedOnlyByKeyExchange ==
    [][/\ session' # session =>
            /\ fg.pc = "key_exchange"
            /\ result'.op = "key_exchange" /\ result'.tag = "Ok"
            /\ session' = fg.new
       /\ (Len(sink') > Len(sink) /\ Last(sink').path = "jdev/sys/enc") =>
            session # 0 /\ Last(sink').sid = session]_vars

\* two key_exchange calls were both answered with status 200: the second
\* call's session has replaced the first
C18_Witness ==
    /\ sentTpl = {"R_Code200_YWJj", "R_Code200_abcd"}
    /\ Len(sink) = 2
    /\ sink[1].path = "jdev/sys/keyexchange" /\ sink[2].path = "jdev/sys/keyexchange"
    /\ result.op = "key_exchange" /\ result.tag = "Ok"
    /\ session = 2

HexChars == {HexDigit(d) : d \in 0..15}

\* the form format!("{:08x}-{:04x}-{:04x}-{:02x}...") gives: 35 characters,
\* hyphens as the 9th, 14th and 19th, lowercase hex digits elsewhere
LoxoneUuidForm(u) ==
    /\ Len(u) = 35
    /\ \A i \in 1..35 : IF i \in {9, 14, 19} THEN u[i] = "-" ELSE u[i] \in HexChars

\* C19 as stated: every UUID of a decoded event table is rendered with
\* exactly 36 characters.
C19_Original ==
    msg.tag = "EventTable" => \A i \in 1..Len(msg.events) : Len(msg.events[i].uuid) = 36

\* C19: every UUID of a decoded event table is rendered with exactly 35
\* characters, 8-4-4-16 lowercase hex digits with three hyphens; and
\* parse_uuid consumes exactly 16 bytes: in a value table the i-th record's
\* UUID is rendered from the 16 bytes at offset 24 * (i - 1) and its value is
\* read from the 8 bytes that follow them.
C19_UuidRendering ==
    [][(AtTableBody /\ nDecoded' = nDecoded + 1) =>
            /\ \A i \in 1..Len(msg'.events) : LoxoneUuidForm(msg'.events[i].uuid)
            /\ loop.msg_type = "ValueEventTable" =>
                    \A i \in 1..Len(msg'.events) :
                        /\ msg'.events[i].uuid = parse_uuid(Head(stream).data, 24 * (i - 1))
                        /\ msg'.events[i].state.val = Slice(Head(stream).data, 24 * (i - 1) + 16, 8)]_vars

\* the table whose first UUID is ff ff ff ff 00 00 ab cd 00 ff 80 7f 01 10 ef fe
\* was decoded: ffffffff-0000-cdab-00ff807f0110effe
C19_Witness ==
    /\ sentTpl = {"ValueHighUuid"}
    /\ msg.tag = "EventTable"
    /\ Len(msg.events) = 2
    /\ msg.events[1].uuid =
            <<"f", "f", "f", "f", "f", "f", "f", "f", "-", "0", "0", "0", "0", "-",
              "c", "d", "a", "b", "-", "0", "0", "f", "f", "8", "0", "7", "f",
              "0", "1", "1", "0", "e", "f", "f", "e">>

\* a binary frame with a known type code and at least four bytes is about to
\* be read as a header
KnownHeader ==
    /\ AtHeader
    /\ Head(stream).kind = "Binary"
    /\ Len(Head(stream).data) >= 4
    /\ Head(stream).data[2] \in 0..7

\* recv_loop has the message type and the body length b: it waits for the
\* body frame or, for a type without a body, has decoded the message
LengthTaken(msg_type, b) ==
    IF msg_type \in {"OutOfServiceIndicator", "KeepAlive"}
    THEN nDecoded' = nDecoded + 1 /\ msg'.tag = msg_type /\ loop' = [pc |-> "header"]
    ELSE nDecoded' = nDecoded /\ loop' = [pc |-> "body", msg_type |-> msg_type, msg_len |-> b]

\* C20: after a header whose info byte is not 0, recv_loop reads the very
\* next frame as the length frame, whatever the type code, and takes the
\* little-endian u32 in that frame's first four bytes as the body length;
\* after a header whose info byte is 0 it reads no length frame and takes the
\* little-endian u32 in header bytes 4..8.
C20_LengthFrame ==
    [][/\ (KnownHeader /\ Head(stream).data[3] # 0) =>
            /\ stream' = Tail(stream)
            /\ nDecoded' = nDecoded
            /\ loop' = [pc |-> "len", msg_type |-> MessageTypeOf(Head(stream).data[2])]
       /\ (loop.pc = "len" /\ stream # <<>> /\ Head(stream).kind # "Err"
                /\ Len(into_data(Head(stream))) >= 4) =>
            /\ stream' = Tail(stream)
            /\ LengthTaken(loop.msg_type, read_u32(into_data(Head(stream)), 0))
       /\ (KnownHeader /\ Head(stream).data[3] = 0 /\ Len(Head(stream).data) >= 8) =>
            /\ stream' = Tail(stream)
            /\ LengthTaken(MessageTypeOf(Head(stream).data[2]), read_u32(Head(stream).data, 4))]_vars

\* a value table whose header says 24 and whose length frame says 0 was
\* decoded as an empty table, and an out-of-service indicator with a length
\* frame was decoded too
C20_Witness ==
    /\ sentTpl = {"ValueLenFrameZero", "OutOfServiceLen"}
    /\ stream = <<>>
    /\ nDecoded = 2
    /\ evQ # <<>>
    /\ evQ[1].table.events = <<>>

\* padding after a text of n bytes
PadOf(n) == (4 - (n % 4)) % 4

\* offset of the i-th record of a text table whose earlier records are in
\* events: each record is two UUIDs, the length, the text and its padding
RECURSIVE TextRecordStart(_, _)
TextRecordStart(events, i) ==
    IF i = 1 THEN 0
    ELSE LET n == Len(events[i - 1].state.text)
         IN  TextRecordStart(events, i - 1) + 36 + n + PadOf(n)

AtTextBody == AtTableBody /\ loop.msg_type = "TextEventTable"

\* C21: when the body of a text table is decoded, each record's text is
\* followed by (4 - L mod 4) mod 4 padding bytes, L being the text's length:
\* the next record is read from L + (4 - L mod 4) mod 4 bytes after the start
\* of the text field, and the cursor ends that far after the last text.  The
\* tables whose first text has 0 to 5 bytes are decoded, both records of each.
C21_TextPadding ==
    [][/\ (AtTextBody /\ nDecoded' = nDecoded + 1) =>
            /\ \A i \in 1..Len(msg'.events) :
                    LET start == TextRecordStart(msg'.events, i)
                    IN  /\ msg'.events[i].uuid = parse_uuid(Head(stream).data, start)
                        /\ msg'.events[i].state.text =
                                Slice(Head(stream).data, start + 36,
                                      read_u32(Head(stream).data, start + 32))
            /\ DecodeEvents("TextEventTable", Head(stream).data, loop.msg_len).pos =
                    TextRecordStart(msg'.events, Len(msg'.events) + 1)
       /\ \A n \in 0..5 :
            (AtTextBody /\ Head(stream).data = BodyTextLen(n)
                    /\ loop.msg_len = Len(BodyTextLen(n)) /\ rxEv = "held") =>
                /\ nDecoded' = nDecoded + 1
                /\ Len(msg'.events) = 2
                /\ Len(msg'.events[1].state.text) = n
                /\ msg'.events[2].uuid = parse_uuid(UuidB, 0)]_vars

\* the tables with a text of 3 bytes (1 padding byte) and of 5 bytes (3
\* padding bytes) were both decoded
C21_Witness ==
    /\ sentTpl = {"TextLen3", "TextLen5"}
    /\ stream = <<>>
    /\ nDecoded = 2
    /\ Len(evQ) = 2
    /\ \A k \in 1..2 : Len(evQ[k].table.events) = 2

\* the body about to be decoded is a daytimer or weather table in which a
\* record's entries-length field is negative: its first record (the field is
\* bytes 24..28 of a daytimer record and 20..24 of a weather record), or the
\* record after a well-formed one
NegativeEntriesLen ==
    /\ AtTableBody
    /\ loop.msg_len > 0
    /\ \/ /\ loop.msg_type = "DaytimerEventTable"
          /\ \/ Len(Head(stream).data) >= 28 /\ Head(stream).data[28] >= 128
             \/ Head(stream).data = BodyDaytimerNegSecond /\ loop.msg_len > Len(BodyDaytimerOne)
       \/ /\ loop.msg_type = "WeatherEventTable"
          /\ \/ Len(Head(stream).data) >= 24 /\ Head(stream).data[24] >= 128
             \/ Head(stream).data = BodyWeatherNegSecond /\ loop.msg_len > Len(BodyWeatherOne)

\* C22: decoding a daytimer or weather body with a record whose
\* entries-length is negative ends recv_loop: no event table is queued for
\* that body, not even with the records before it, and once recv_loop has
\* ended no later frame is read.
C22_NegativeEntriesFatal == [][(NegativeEntriesLen => FatalStep) /\ DeadLoopIdle]_vars

\* the daytimer table whose second record has entries-length -1 ended
\* recv_loop; the keep-alive after it is unread
C22_Witness ==
    /\ sentTpl = {"DaytimerNegSecond", "KeepAlive"}
    /\ stream = Frames("KeepAlive")
    /\ loop.pc = "dead"
    /\ nDecoded = 0
    /\ evQ = <<>>

(***************************************************************************)
(* One connection to a server that answers every command with exactly one  *)
(* reply, in command order, and sends keep-alives, out-of-service          *)
(* indicators and event tables whenever it likes.  Frames queue up in the  *)
(* transport until recv_loop reads them.                                   *)
(***************************************************************************)
MaxMsgsSync == 2
MaxCallsSync == 2

\* the replies to the first, second, third and fourth command
SyncReplies == <<"R_Code200_YWJj", "R_Code200_abcd", "R_Code401", "R_Code200_1">>
SyncReplySet == {SyncReplies[k] : k \in 1..Len(SyncReplies)}

SyncMenu ==
    [name |-> "sync", templates |-> {"KeepAlive", "OutOfService", "ValueOne", "TextTwo"},
     max |-> MaxMsgsSync, ops |-> {"key_exchange", "authenticate", "send_io_cmd"},
     calls |-> MaxCallsSync, drops |-> TRUE]

InitSync == InitWith(SyncMenu, {}, <<>>, FALSE)

nAnswered == Cardinality(sentTpl \cap SyncReplySet)

\* the server sends a message that answers no command
ServerEmit(t) ==
    /\ ~closed
    /\ t \in menu.templates \ sentTpl
    /\ Cardinality(sentTpl \ SyncReplySet) < menu.max
    /\ stream' = stream \o Frames(t)
    /\ sentTpl' = sentTpl \cup {t}
    /\ UNCHANGED <<menu, closed, loopVars, replyQ, evQ, handle, rxEv, fgVars, subVars>>

\* the server answers the oldest command it has not answered yet
ServerAnswer ==
    /\ ~closed
    /\ nAnswered < Len(sink)
    /\ nAnswered < Len(SyncReplies)
    /\ stream' = stream \o Frames(SyncReplies[nAnswered + 1])
    /\ sentTpl' = sentTpl \cup {SyncReplies[nAnswered + 1]}
    /\ UNCHANGED <<menu, closed, loopVars, replyQ, evQ, handle, rxEv, fgVars, subVars>>

NextSync ==
    \/ \E t \in SyncMenu.templates : ServerEmit(t)
    \/ ServerAnswer
    \/ TransportClose
    \/ RecvHeader
    \/ RecvBody
    \/ RecvEof
    \/ CallKeyExchange("good_pem")
    \/ KeyExchangeReply
    \/ CallAuthenticate("good")
    \/ GetKeyReply
    \/ AuthenticateReply
    \/ CallSendIoCmd
    \/ SendIoCmdReply
    \/ DropEvents

SyncSpec == InitSync /\ [][NextSync]_vars

\* the message the server sent in answer to the k-th command
AnswerTo(k) == MsgText(Frames(SyncReplies[k])[2].text)

\* C23: with a server that answers each command once and in order, every
\* recv() of a send_recv that returns a message returns the answer to the
\* command that send_recv wrote (the last one written), and the reply queue
\* is empty whenever a command is written (after the recv() before it, if
\* any, has taken its message), however the other messages are interleaved
\* and the tasks scheduled.
C23_RepliesMatchCommands ==
    [][/\ (reply' # reply /\ reply'.some) =>
            Len(sink) <= Len(SyncReplies) /\ reply'.msg = AnswerTo(Len(sink))
       /\ Len(sink') > Len(sink) => replyQ' = <<>>]_vars

\* three commands were written and the third send_recv has returned the
\* third answer, with a keep-alive and an event table decoded in between
C23_Witness ==
    /\ Len(sink) = 3
    /\ fg.pc = "idle"
    /\ reply.some /\ reply.msg = AnswerTo(3)
    /\ {"KeepAlive", "ValueOne"} \subseteq sentTpl
    /\ nDecoded = 5

\* C24: once the EventReceiver (or the stream made from it) is dropped, the
\* step that decodes the next event table ends recv_loop; after recv_loop has
\* ended no message is added to the reply queue; and a send_recv whose
\* recv() runs with recv_loop ended and the reply queue empty returns the
\* broken-pipe error.
C24_DroppedSubscriberStopsLoop ==
    [][/\ (rxEv = "dropped" /\ nDecoded' = nDecoded + 1 /\ msg'.tag = "EventTable") =>
            /\ loop' = Dead
            /\ evQ' = evQ
            /\ replyQ' = replyQ
       /\ ~LoopRunning => (~LoopRunning' /\ Len(replyQ') <= Len(replyQ))
       /\ (~LoopRunning /\ replyQ = <<>> /\ fg.pc \in WaitingPcs /\ fg'.pc # fg.pc) =>
            IsBrokenPipe(result')]_vars

\* with the transport still open, an event table decoded after the
\* EventReceiver was dropped has ended recv_loop, and a send_recv has
\* returned the broken-pipe error
C24_Witness ==
    /\ rxEv = "dropped"
    /\ ~closed
    /\ ~LoopRunning
    /\ msg.tag = "EventTable"
    /\ Len(sink) >= 1
    /\ fg.pc = "idle"
    /\ IsBrokenPipe(result)

\* the step writes the encrypted command whose plain text has the given path
WritesEnc(path) ==
    /\ Len(sink') > Len(sink)
    /\ Last(sink').path = "jdev/sys/enc"
    /\ Last(sink').plain.path = path

\* the reply the step received is a Text reply with status "200" in the field
\* the waiting operation reads
FirstStepOk ==
    /\ IsText(reply')
    /\ StatusOf(reply'.msg.text, StatusField(fg.pc)) = [some |-> TRUE, s |-> "200"]

\* C25: authwithtoken is written only in the step in which the same
\* authenticate call receives a status-200 reply to the jdev/sys/getkey it
\* wrote last, and getjwt only in the step in which the same get_jwt call
\* receives a status-200 reply to its jdev/sys/getkey2; and when the reply to
\* the key request is not a status-200 reply, or there is no session, the
\* (well-formed) call ends by returning an error and writes nothing more.
C25_SecondStepAfterFirst ==
    [][/\ WritesEnc("authwithtoken") =>
            fg.pc = "get_key" /\ Last(sink) = Cmd("jdev/sys/getkey") /\ FirstStepOk
       /\ WritesEnc("jdev/sys/getjwt") =>
            fg.pc = "get_key_salt" /\ Last(sink) = Cmd("jdev/sys/getkey2") /\ FirstStepOk
       /\ (fg.pc \in {"get_key", "get_key_salt"} /\ fg' # fg /\ WellFormedCall
                /\ (session = 0 \/ ~FirstStepOk)) =>
            /\ result'.tag = "Err"
            /\ sink' = sink
            /\ Last(sink) \in {Cmd("jdev/sys/getkey"), Cmd("jdev/sys/getkey2")}]_vars

\* the reply the step received is a Text reply with Code "200" and value "1"
EnableAccepted ==
    /\ IsText(reply')
    /\ StatusOf(reply'.msg.text, "Code") = [some |-> TRUE, s |-> "200"]
    /\ ValueOf(reply'.msg.text) = [some |-> TRUE, s |-> "1"]

\* C26: on a 200/"1" reply enable_status_update starts taking tables from the
\* event queue instead of returning; it returns, with success, only in the
\* step that takes the fourth table, or when recv_loop has ended and the
\* queue is empty; in the second case the snapshot is built from the fewer
\* tables taken so far, and the stream returned yields nothing: the queue is
\* empty and closed when it is first polled.
C26_SnapshotWaitsForFour ==
    [][/\ (fg.pc = "enable" /\ fg' # fg /\ EnableAccepted) => fg'.pc = "snapshot"
       /\ (fg.pc = "snapshot" /\ fg'.pc # "snapshot") =>
            /\ result' = Ok("enable_status_update", FoldTables(snapTables', Len(snapTables')))
            /\ rxEv' = "stream"
            /\ \/ Len(snapTables') = 4 /\ Len(snapTables) = 3
               \/ /\ Len(snapTables') < 4
                  /\ snapTables' = snapTables
                  /\ ~LoopRunning
                  /\ evQ = <<>>
       /\ (EnableReturned /\ Len(snapTables) < 4) =>
            /\ streamOut' = streamOut
            /\ rxEv = "stream" => (evQ = <<>> /\ ~LoopRunning)]_vars

\* recv_loop ended after two tables: enable_status_update has returned a
\* snapshot of those two, and the stream has ended without an item
C26_Witness ==
    /\ EnableReturned
    /\ Len(snapTables) = 2
    /\ result.val = FoldTables(snapTables, 2)
    /\ rxEv = "ended"
    /\ streamOut.seq = 0

====
